---- MODULE Spec2Model ----
(***************************************************************************)
(* SurakshaOS trust kernel: the capability registry (kernel/src/           *)
(* capability.rs) and the zero-copy IPC channel (kernel/src/ipc.rs).       *)
(*                                                                         *)
(* The registry is a BTreeMap behind a spin lock, the id counters are      *)
(* atomics.  A call is split into steps only where another thread can      *)
(* interleave with an effect on shared state: create_capability does its   *)
(* parent checks and fetch_add outside the lock and inserts under it, so   *)
(* it is two steps; validate_capability and revoke_capability touch shared *)
(* state in one critical section each.                                     *)
(***************************************************************************)
EXTENDS Integers, Sequences, FiniteSets, TLC

VARIABLES
    capabilities,        \* CAPABILITY_REGISTRY.capabilities : id -> Capability
    audit_log,           \* CAPABILITY_REGISTRY.audit_log    : Seq(AuditEntry)
    NEXT_CAPABILITY_ID,  \* AtomicU64
    held,                \* Capability values returned to callers (copies)
    inflight,            \* create_capability calls between fetch_add and lock
    channels,            \* IpcChannel values, by channel id
    NEXT_CHANNEL_ID,     \* AtomicU64
    IPC_STATS,           \* Mutex<IpcStats>
    sent_log,            \* per channel: messages send_message returned Ok for
    recv_log,            \* per channel: messages receive_message returned
    transport,           \* a RingBuffer::new() driven directly by its two ends
    outstanding,         \* the data of the writes not yet read, oldest first
    writes,              \* RingBuffer::write calls made on transport
    reads,               \* RingBuffer::read calls on transport that returned Ok
    overrun,             \* a write was accepted that did not fit the free bytes
    producer,            \* the thread in RingBuffer::write: its step and locals
    consumer,            \* the thread in RingBuffer::read: its step and locals
    CAPABILITY_INITIALIZED,  \* AtomicBool
    init_calls,          \* per thread: where its call of capability::init() is
    registry_lock,       \* CAPABILITY_REGISTRY (spin::Mutex): holder, 0 if free
    stats_lock,          \* IPC_STATS (spin::Mutex): holder, 0 if free
    api_calls,           \* per thread: the call it is in and how far, by lock
    last                 \* the call that returned last, with its result

capVars == <<capabilities, audit_log, NEXT_CAPABILITY_ID, held, inflight>>
ipcVars == <<channels, NEXT_CHANNEL_ID, IPC_STATS, sent_log, recv_log>>
ringVars == <<transport, outstanding, writes, reads, overrun,
              producer, consumer>>
bootVars == <<CAPABILITY_INITIALIZED, init_calls>>
lockVars == <<registry_lock, stats_lock, api_calls>>
vars == <<capabilities, audit_log, NEXT_CAPABILITY_ID, held, inflight,
          channels, NEXT_CHANNEL_ID, IPC_STATS, sent_log, recv_log,
          transport, outstanding, writes, reads, overrun,
          producer, consumer, CAPABILITY_INITIALIZED, init_calls,
          registry_lock, stats_lock, api_calls, last>>

(***************************************************************************)
(* Bounds of the model.                                                    *)
(***************************************************************************)
\* ids handed out by NEXT_CAPABILITY_ID stay <= MaxCapabilityId
MaxCapabilityId == 4
\* the audit log holds at most MaxAudit entries
MaxAudit == 5
\* create_capability calls that may be between fetch_add and the lock at once
MaxInflight == 1
\* ids handed out along the one delegation chain of SpecDepth
MaxChainId == 258
\* send_message calls made on the one channel of SpecSend: one more than
\* the writes a ring accepts, two to a message
MaxSends == 2049
\* create_channel calls made in SpecChannels
MaxChannelCreates == 3
\* threads that make calls at once in SpecCalls
MaxCallThreads == 2
\* calls each of these threads makes
MaxCallsPerThread == 1

CallThreads == 1..MaxCallThreads

(***************************************************************************)
(* Option<T>: None is the empty sequence, Some(x) the one-element one.     *)
(***************************************************************************)
None == << >>
Some(x) == << x >>
is_some(o) == o # << >>
unwrap(o) == o[1]

(***************************************************************************)
(* PermissionSet                                                           *)
(***************************************************************************)
PermissionSet(r, w, x, d, g) ==
    [read |-> r, write |-> w, execute |-> x, delete |-> d, delegate |-> g]

READ_ONLY == PermissionSet(TRUE, FALSE, FALSE, FALSE, FALSE)
READ_WRITE == PermissionSet(TRUE, TRUE, FALSE, FALSE, FALSE)
FULL == PermissionSet(TRUE, TRUE, TRUE, TRUE, TRUE)

\* a mutant of is_subset_of: only the delegate right is compared
is_subset_of_delegate_only(self, other) == ~self.delegate \/ other.delegate

\* a mutant of is_subset_of: the two sets are compared the wrong way round
is_subset_of_reversed(self, other) ==
    /\ (~other.read \/ self.read)
    /\ (~other.write \/ self.write)
    /\ (~other.execute \/ self.execute)
    /\ (~other.delete \/ self.delete)
    /\ (~other.delegate \/ self.delegate)

is_subset_of(self, other) ==
    /\ (~self.read \/ other.read)
    /\ (~self.write \/ other.write)
    /\ (~self.execute \/ other.execute)
    /\ (~self.delete \/ other.delete)
    /\ (~self.delegate \/ other.delegate)

Permission == {"Read", "Write", "Execute", "Delete", "Delegate"}

has_permission(permissions, permission) ==
    CASE permission = "Read" -> permissions.read
      [] permission = "Write" -> permissions.write
      [] permission = "Execute" -> permissions.execute
      [] permission = "Delete" -> permissions.delete
      [] permission = "Delegate" -> permissions.delegate

(***************************************************************************)
(* Stubs of the source: both return the constant 0.                        *)
(***************************************************************************)
get_timestamp == 0
get_current_process_id == 0

(***************************************************************************)
(* ResourceId and Capability                                               *)
(***************************************************************************)
ResourceMemory(start, size) == [tag |-> "Memory", start |-> start, size |-> size]
ResourceIPC(channel_id) == [tag |-> "IPC", channel_id |-> channel_id]

Capability(id, cap_type, resource_id, permissions, parent, depth) ==
    [id |-> id,
     cap_type |-> cap_type,
     resource_id |-> resource_id,
     permissions |-> permissions,
     expiry |-> 0,
     parent |-> parent,
     depth |-> depth,
     revoked |-> FALSE]

\* a mutant of AuditEntry: the entry does not carry the capability's id
AuditEntry_without_id(operation, capability_id) ==
    [timestamp |-> get_timestamp,
     operation |-> operation,
     capability_id |-> 0,
     process_id |-> get_current_process_id]

AuditEntry(operation, capability_id) ==
    [timestamp |-> get_timestamp,
     operation |-> operation,
     capability_id |-> capability_id,
     process_id |-> get_current_process_id]

\* BTreeMap::insert: an existing entry under the key is replaced
insert(map, key, value) ==
    [k \in DOMAIN map \cup {key} |-> IF k = key THEN value ELSE map[k]]

(***************************************************************************)
(* create_root_capability, as capability::init() runs it on the empty      *)
(* registry.  init() drops the value it gets back, so no caller holds a    *)
(* copy of the root.                                                       *)
(***************************************************************************)
\* usize::MAX, as the largest integer the model checker has
USIZE_MAX == 2147483647

create_root_capability(id) ==
    Capability(id, "Memory", ResourceMemory(0, USIZE_MAX), FULL, None, 0)

(***************************************************************************)
(* create_capability: the checks on the parent value the caller passes     *)
(* (lines 311-333), in the order of the code.                              *)
(***************************************************************************)
DepthLimit == 255
DepthModulus == 256

\* mutants of create_check: one check dropped or weakened
create_check_no_escalation(permissions, parent) ==
    IF ~is_some(parent) THEN "Ok"
    ELSE IF unwrap(parent).revoked THEN "ParentRevoked"
    ELSE IF ~unwrap(parent).permissions.delegate THEN "NoDelegatePermission"
    ELSE IF unwrap(parent).depth >= DepthLimit THEN "DelegationDepthExceeded"
    ELSE "Ok"

create_check_off_by_one(permissions, parent) ==
    IF ~is_some(parent) THEN "Ok"
    ELSE IF unwrap(parent).revoked THEN "ParentRevoked"
    ELSE IF ~unwrap(parent).permissions.delegate THEN "NoDelegatePermission"
    ELSE IF ~is_subset_of(permissions, unwrap(parent).permissions)
         THEN "PermissionEscalation"
    ELSE IF unwrap(parent).depth > DepthLimit THEN "DelegationDepthExceeded"
    ELSE "Ok"

\* a mutant of create_check: the parent's delegate right is not asked for
create_check_no_delegate_check(permissions, parent) ==
    IF ~is_some(parent) THEN "Ok"
    ELSE IF unwrap(parent).revoked THEN "ParentRevoked"
    ELSE IF ~is_subset_of(permissions, unwrap(parent).permissions)
         THEN "PermissionEscalation"
    ELSE IF unwrap(parent).depth >= DepthLimit THEN "DelegationDepthExceeded"
    ELSE "Ok"

\* a mutant of create_check: the depth is checked before the rights
create_check_depth_first(permissions, parent) ==
    IF ~is_some(parent) THEN "Ok"
    ELSE IF unwrap(parent).revoked THEN "ParentRevoked"
    ELSE IF unwrap(parent).depth >= DepthLimit THEN "DelegationDepthExceeded"
    ELSE IF ~unwrap(parent).permissions.delegate THEN "NoDelegatePermission"
    ELSE IF ~is_subset_of(permissions, unwrap(parent).permissions)
         THEN "PermissionEscalation"
    ELSE "Ok"

create_check(permissions, parent) ==
    IF ~is_some(parent) THEN "Ok"
    ELSE IF unwrap(parent).revoked THEN "ParentRevoked"
    ELSE IF ~unwrap(parent).permissions.delegate THEN "NoDelegatePermission"
    ELSE IF ~is_subset_of(permissions, unwrap(parent).permissions)
         THEN "PermissionEscalation"
    ELSE IF unwrap(parent).depth >= DepthLimit THEN "DelegationDepthExceeded"
    ELSE "Ok"

\* the Capability value built at lines 338-347; depth is a u8
\* a mutant of new_capability: the child is given its parent's depth
new_capability_same_depth(id, cap_type, resource_id, permissions, parent) ==
    Capability(id, cap_type, resource_id, permissions,
               IF is_some(parent) THEN Some(unwrap(parent).id) ELSE None,
               IF is_some(parent) THEN unwrap(parent).depth ELSE 0)

\* a mutant of new_capability: the id is the one before the fetch_add's value
new_capability_stale_id(id, cap_type, resource_id, permissions, parent) ==
    Capability(id - 1, cap_type, resource_id, permissions,
               IF is_some(parent) THEN Some(unwrap(parent).id) ELSE None,
               IF is_some(parent)
               THEN (unwrap(parent).depth + 1) % DepthModulus
               ELSE 0)

new_capability(id, cap_type, resource_id, permissions, parent) ==
    Capability(id, cap_type, resource_id, permissions,
               IF is_some(parent) THEN Some(unwrap(parent).id) ELSE None,
               IF is_some(parent)
               THEN (unwrap(parent).depth + 1) % DepthModulus
               ELSE 0)

\* the audit operation chosen at lines 357-361
\* a mutant of creation_operation: every creation is logged as Created
creation_operation_always_created(cap) == "Created"

creation_operation(cap) ==
    IF is_some(cap.parent) THEN "Delegated" ELSE "Created"

(***************************************************************************)
(* validate_capability: the checks of lines 393-414 on the value passed.   *)
(***************************************************************************)
\* a mutant of validate_check: the permission is checked before the flag
validate_check_permission_first(capability, permission) ==
    IF ~has_permission(capability.permissions, permission)
    THEN "PermissionDenied"
    ELSE IF capability.revoked THEN "Revoked"
    ELSE IF capability.expiry > 0 /\ get_timestamp > capability.expiry
         THEN "Expired"
    ELSE "Ok"

validate_check(capability, permission) ==
    IF capability.revoked THEN "Revoked"
    ELSE IF capability.expiry > 0 /\ get_timestamp > capability.expiry
         THEN "Expired"
    ELSE IF ~has_permission(capability.permissions, permission)
         THEN "PermissionDenied"
    ELSE "Ok"

(***************************************************************************)
(* revoke_capability: the flags after lines 451-465.  The target is        *)
(* flagged, then every entry whose parent field is the target.             *)
(***************************************************************************)
\* mutant: the children are not flagged
revoke_flags_target_only(caps, capability_id) ==
    [k \in DOMAIN caps |->
        IF k = capability_id
        THEN [caps[k] EXCEPT !.revoked = TRUE]
        ELSE caps[k]]

\* mutant: every entry that has a parent is flagged
revoke_flags_all_delegated(caps, capability_id) ==
    [k \in DOMAIN caps |->
        IF k = capability_id \/ is_some(caps[k].parent)
        THEN [caps[k] EXCEPT !.revoked = TRUE]
        ELSE caps[k]]

\* a mutant of revoke_flags: the flag of the target is flipped, not set
revoke_flags_toggle(caps, capability_id) ==
    [k \in DOMAIN caps |->
        IF k = capability_id
        THEN [caps[k] EXCEPT !.revoked = ~caps[k].revoked]
        ELSE IF caps[k].parent = Some(capability_id)
        THEN [caps[k] EXCEPT !.revoked = TRUE]
        ELSE caps[k]]

revoke_flags(caps, capability_id) ==
    [k \in DOMAIN caps |->
        IF k = capability_id \/ caps[k].parent = Some(capability_id)
        THEN [caps[k] EXCEPT !.revoked = TRUE]
        ELSE caps[k]]

(***************************************************************************)
(* RingBuffer (ipc.rs).  The region comes from alloc() and starts          *)
(* uninitialized: buffer maps the offsets stored so far to their bytes.    *)
(***************************************************************************)
RING_BUFFER_SIZE == 4096

\* what a load of a never-stored offset yields
Uninit == -1

RingBuffer_new(size) ==
    [buffer |-> << >>, size |-> size, write_pos |-> 0, read_pos |-> 0,
     count |-> 0]

Min(a, b) == IF a <= b THEN a ELSE b

\* buffer after copy_nonoverlapping(data[from .. from+n), buffer + at, n)
\* the bytes of MessageData::Inline
INLINE_SIZE == 64

\* the same copy, byte by byte, of a message part onto offsets that already
\* hold a byte
RECURSIVE copy_within(_, _, _, _, _)
copy_within(buffer, at, data, from, n) ==
    IF n = 0 THEN buffer
    ELSE IF n = 1 THEN [buffer EXCEPT ![at] = data[from + 1]]
    ELSE LET half == n \div 2
         IN copy_within(copy_within(buffer, at, data, from, half),
                        at + half, data, from + half, n - half)

copy_in(buffer, at, data, from, n) ==
    IF n <= INLINE_SIZE /\ (at .. at + n - 1) \subseteq DOMAIN buffer
    THEN copy_within(buffer, at, data, from, n)
    ELSE [o \in DOMAIN buffer \cup (at .. at + n - 1) |->
            IF o >= at /\ o < at + n THEN data[from + (o - at) + 1] ELSE buffer[o]]

\* the n bytes copy_nonoverlapping(buffer + at, dest, n) loads
copy_out(buffer, at, n) ==
    [i \in 1..n |->
        IF (at + i - 1) \in DOMAIN buffer THEN buffer[at + i - 1] ELSE Uninit]

\* a mutant of RingBuffer_write: full is reported one write early
RingBuffer_write_full_early(ring, data) ==
    IF ring.count + 1 >= RING_BUFFER_SIZE
    THEN [result |-> "BufferFull", n |-> 0, ring |-> ring]
    ELSE LET len == Len(data)
             write_pos == ring.write_pos
             available == ring.size - write_pos
             stored ==
                 IF len > available
                 THEN copy_in(copy_in(ring.buffer, write_pos, data, 0, available),
                              0, data, available, len - available)
                 ELSE copy_in(ring.buffer, write_pos, data, 0, len)
         IN [result |-> "Ok", n |-> len,
             ring |-> [ring EXCEPT !.buffer = stored,
                                   !.write_pos = (write_pos + len) % ring.size,
                                   !.count = ring.count + 1]]

\* RingBuffer::write, lines 116-163
RingBuffer_write(ring, data) ==
    IF ring.count >= RING_BUFFER_SIZE
    THEN [result |-> "BufferFull", n |-> 0, ring |-> ring]
    ELSE LET len == Len(data)
             write_pos == ring.write_pos
             available == ring.size - write_pos
             stored ==
                 IF len > available
                 THEN copy_in(copy_in(ring.buffer, write_pos, data, 0, available),
                              0, data, available, len - available)
                 ELSE copy_in(ring.buffer, write_pos, data, 0, len)
         IN [result |-> "Ok", n |-> len,
             ring |-> [ring EXCEPT !.buffer = stored,
                                   !.write_pos = (write_pos + len) % ring.size,
                                   !.count = ring.count + 1]]

\* RingBuffer::read into a zeroed destination of buffer_len bytes,
\* lines 170-223; dest is the destination afterwards
RingBuffer_read(ring, buffer_len) ==
    IF ring.count = 0
    THEN [result |-> "BufferEmpty", n |-> 0,
          dest |-> [i \in 1..buffer_len |-> 0], ring |-> ring]
    ELSE LET read_pos == ring.read_pos
             write_pos == ring.write_pos
             available == IF write_pos >= read_pos
                          THEN write_pos - read_pos
                          ELSE ring.size - read_pos + write_pos
             len == Min(buffer_len, available)
             first_part == ring.size - read_pos
             loaded ==
                 IF read_pos + len > ring.size
                 THEN copy_out(ring.buffer, read_pos, first_part)
                      \o copy_out(ring.buffer, 0, len - first_part)
                 ELSE copy_out(ring.buffer, read_pos, len)
         IN [result |-> "Ok", n |-> len,
             dest |-> [i \in 1..buffer_len |->
                          IF i <= len THEN loaded[i] ELSE 0],
             ring |-> [ring EXCEPT !.read_pos = (read_pos + len) % ring.size,
                                   !.count = ring.count - 1]]

(***************************************************************************)
(* IpcMessage and its wire form.  Integers are stored little-endian (the   *)
(* kernel's targets are riscv64 and aarch64).                              *)
(***************************************************************************)
MessageType == <<"Request", "Reply", "Notification", "Error">>

\* the discriminant of a MessageType value (declaration order, from 0)
msg_type_tag(msg_type) ==
    CHOOSE t \in 0..3 : MessageType[t + 1] = msg_type

\* the MessageType a discriminant byte reads back as
msg_type_of(tag) ==
    IF tag \in 0..3 THEN MessageType[tag + 1] ELSE "Invalid"

RECURSIVE to_le_bytes(_, _)
to_le_bytes(n, width) ==
    IF width = 0 THEN << >>
    ELSE << n % 256 >> \o to_le_bytes(n \div 256, width - 1)

RECURSIVE from_le_bytes(_)
from_le_bytes(bytes) ==
    IF bytes = << >> THEN 0
    ELSE Head(bytes) + 256 * from_le_bytes(Tail(bytes))

InlineData(bytes) == [tag |-> "Inline", bytes |-> bytes]
SharedMemoryData(addr, size, capability) ==
    [tag |-> "SharedMemory", addr |-> addr, size |-> size,
     capability |-> capability]

IpcMessage(id, sender, msg_type, data, caps) ==
    [id |-> id, sender |-> sender, msg_type |-> msg_type, data |-> data,
     capabilities |-> caps]

\* size_of::<MessageHeader>() under repr(C): u64, u32, u8, u8 and two
\* bytes of padding up to the alignment of 8
HEADER_SIZE == 16
\* size_of::<(usize, usize)>()
REF_SIZE == 16

data_type_of(data) == IF data.tag = "Inline" THEN 0 ELSE 1

\* the bytes of a MessageHeader value; pad is what its two padding bytes hold
header_bytes(message, pad) ==
    to_le_bytes(message.id, 8) \o to_le_bytes(message.sender, 4)
        \o << msg_type_tag(message.msg_type), data_type_of(message.data) >>
        \o << pad, pad >>

\* the bytes of the (addr, size) pair
ref_bytes(addr, size) == to_le_bytes(addr, 8) \o to_le_bytes(size, 8)

payload_bytes_copying(data) ==
    IF data.tag = "Inline" THEN data.bytes ELSE [i \in 1..data.size |-> 0]

payload_bytes(data) ==
    IF data.tag = "Inline" THEN data.bytes ELSE ref_bytes(data.addr, data.size)

IpcChannel(id, sender_pid, receiver_pid, capability) ==
    [id |-> id, sender_pid |-> sender_pid, receiver_pid |-> receiver_pid,
     send_ring |-> RingBuffer_new(RING_BUFFER_SIZE),
     recv_ring |-> RingBuffer_new(RING_BUFFER_SIZE),
     capability |-> capability]

(***************************************************************************)
(* The state after capability::init() and ipc::init(): the registry holds  *)
(* the root capability (id 1, the first fetch_add of a counter that starts *)
(* at 1) and its Created entry.                                            *)
(***************************************************************************)
InitialCapabilityId == 1
InitialChannelId == 1

IpcStats(sent, received, bytes, zero_copy) ==
    [messages_sent |-> sent,
     messages_received |-> received,
     bytes_transferred |-> bytes,
     zero_copy_transfers |-> zero_copy]

Init ==
    /\ capabilities = insert(<< >>, InitialCapabilityId,
                             create_root_capability(InitialCapabilityId))
    /\ audit_log = << AuditEntry("Created", InitialCapabilityId) >>
    /\ NEXT_CAPABILITY_ID = InitialCapabilityId + 1
    /\ held = {}
    /\ inflight = {}
    /\ channels = << >>
    /\ NEXT_CHANNEL_ID = InitialChannelId
    /\ IPC_STATS = IpcStats(0, 0, 0, 0)
    /\ sent_log = << >>
    /\ recv_log = << >>
    /\ transport = RingBuffer_new(RING_BUFFER_SIZE)
    /\ outstanding = << >>
    /\ writes = 0
    /\ reads = 0
    /\ overrun = FALSE
    /\ producer = [pc |-> "idle"]
    /\ consumer = [pc |-> "idle"]
    /\ CAPABILITY_INITIALIZED = TRUE
    /\ init_calls = << >>
    /\ registry_lock = 0
    /\ stats_lock = 0
    /\ api_calls = [t \in CallThreads |-> [pc |-> 0, made |-> 0]]
    /\ last = [op |-> "init", result |-> "Ok"]

(***************************************************************************)
(* Inputs of the calls.                                                    *)
(***************************************************************************)
READ_DELEGATE == PermissionSet(TRUE, FALSE, FALSE, FALSE, TRUE)
PermissionInputs == {FULL, READ_DELEGATE, READ_ONLY}
ResourceInputs == {ResourceMemory(4096, 4096)}
ValidateInputs == {"Read", "Write", "Delegate"}

(***************************************************************************)
(* create_capability, called by a holder of `parent` (or with None).       *)
(* Lines 310-336: the checks on the value passed and the fetch_add.  A     *)
(* failed check returns at once; otherwise the call holds its id and the   *)
(* value built, and has still to take the registry lock ("Pending").       *)
(* parent_revoked_at_call records what the registry said of the parent     *)
(* when the call was made.                                                 *)
(***************************************************************************)
registry_revoked(parent) ==
    /\ is_some(parent)
    /\ unwrap(parent).id \in DOMAIN capabilities
    /\ capabilities[unwrap(parent).id].revoked

CreateCapabilityBegin(cap_type, resource_id, permissions, parent) ==
    LET check == create_check(permissions, parent) IN
    /\ IF check = "Ok"
       THEN /\ NEXT_CAPABILITY_ID' = NEXT_CAPABILITY_ID + 1
            /\ inflight' = inflight \cup
                 {[cap |-> new_capability(NEXT_CAPABILITY_ID, cap_type,
                                          resource_id, permissions, parent),
                   parent |-> parent,
                   parent_revoked_at_call |-> registry_revoked(parent),
                   caller |-> "create_capability",
                   channel |-> None]}
            /\ last' = [op |-> "create_capability", result |-> "Pending",
                        permissions |-> permissions, parent |-> parent,
                        parent_revoked_at_call |-> registry_revoked(parent)]
       ELSE /\ UNCHANGED <<NEXT_CAPABILITY_ID, inflight>>
            /\ last' = [op |-> "create_capability", result |-> check,
                        permissions |-> permissions, parent |-> parent,
                        parent_revoked_at_call |-> registry_revoked(parent)]
    /\ UNCHANGED <<capabilities, audit_log, held>>
    /\ UNCHANGED ipcVars
    /\ UNCHANGED <<ringVars, bootVars, lockVars>>

(***************************************************************************)
(* Lines 349-366: under the lock, the insert and the audit entry; the      *)
(* value is returned to the caller.                                        *)
(***************************************************************************)
CreateCapabilityCommit(call) ==
    /\ call.caller = "create_capability"
    /\ capabilities' = insert(capabilities, call.cap.id, call.cap)
    /\ audit_log' = Append(audit_log,
                           AuditEntry(creation_operation(call.cap), call.cap.id))
    /\ inflight' = inflight \ {call}
    /\ held' = held \cup {call.cap}
    /\ last' = [op |-> "create_capability", result |-> "Ok",
                cap |-> call.cap, permissions |-> call.cap.permissions,
                parent |-> call.parent,
                parent_revoked_at_call |-> call.parent_revoked_at_call]
    /\ UNCHANGED NEXT_CAPABILITY_ID
    /\ UNCHANGED ipcVars
    /\ UNCHANGED <<ringVars, bootVars, lockVars>>

(***************************************************************************)
(* validate_capability(&capability, permission) on a held value.           *)
(***************************************************************************)
ValidateCapability(capability, permission) ==
    LET check == validate_check(capability, permission) IN
    /\ audit_log' = IF check = "Ok"
                    THEN Append(audit_log, AuditEntry("Used", capability.id))
                    ELSE audit_log
    /\ last' = [op |-> "validate_capability", result |-> check,
                cap |-> capability, permission |-> permission]
    /\ UNCHANGED <<capabilities, NEXT_CAPABILITY_ID, held, inflight>>
    /\ UNCHANGED ipcVars
    /\ UNCHANGED <<ringVars, bootVars, lockVars>>

(***************************************************************************)
(* revoke_capability(capability_id): one critical section.                 *)
(***************************************************************************)
\* a mutant of RevokeCapability: the revocation is logged before the lookup
RevokeCapability_logged_first(capability_id) ==
    /\ audit_log' = Append(audit_log, AuditEntry("Revoked", capability_id))
    /\ IF capability_id \in DOMAIN capabilities
       THEN /\ capabilities' = revoke_flags(capabilities, capability_id)
            /\ last' = [op |-> "revoke_capability", result |-> "Ok",
                        id |-> capability_id]
       ELSE /\ UNCHANGED capabilities
            /\ last' = [op |-> "revoke_capability", result |-> "NotFound",
                        id |-> capability_id]
    /\ UNCHANGED <<NEXT_CAPABILITY_ID, held, inflight>>
    /\ UNCHANGED ipcVars
    /\ UNCHANGED <<ringVars, bootVars, lockVars>>

RevokeCapability(capability_id) ==
    /\ IF capability_id \in DOMAIN capabilities
       THEN /\ capabilities' = revoke_flags(capabilities, capability_id)
            /\ audit_log' = Append(audit_log,
                                   AuditEntry("Revoked", capability_id))
            /\ last' = [op |-> "revoke_capability", result |-> "Ok",
                        id |-> capability_id]
       ELSE /\ UNCHANGED <<capabilities, audit_log>>
            /\ last' = [op |-> "revoke_capability", result |-> "NotFound",
                        id |-> capability_id]
    /\ UNCHANGED <<NEXT_CAPABILITY_ID, held, inflight>>
    /\ UNCHANGED ipcVars
    /\ UNCHANGED <<ringVars, bootVars, lockVars>>

(***************************************************************************)
(* create_channel(sender_pid, receiver_pid), lines 313-337.  The channel   *)
(* id and the two rings are taken first; the capability comes from         *)
(* create_capability(IPC, IPC{id}, READ_WRITE, None), which takes its id   *)
(* and then the registry lock like any other call.                         *)
(***************************************************************************)
CreateChannelBegin(sender_pid, receiver_pid) ==
    LET check == create_check(READ_WRITE, None) IN
    /\ check = "Ok"
    /\ NEXT_CHANNEL_ID' = NEXT_CHANNEL_ID + 1
    /\ NEXT_CAPABILITY_ID' = NEXT_CAPABILITY_ID + 1
    /\ inflight' = inflight \cup
         {[cap |-> new_capability(NEXT_CAPABILITY_ID, "IPC",
                                  ResourceIPC(NEXT_CHANNEL_ID), READ_WRITE, None),
           parent |-> None,
           parent_revoked_at_call |-> FALSE,
           caller |-> "create_channel",
           channel |-> Some([id |-> NEXT_CHANNEL_ID,
                             sender_pid |-> sender_pid,
                             receiver_pid |-> receiver_pid])]}
    /\ last' = [op |-> "create_channel", result |-> "Pending",
                id |-> NEXT_CHANNEL_ID]
    /\ UNCHANGED <<capabilities, audit_log, held>>
    /\ UNCHANGED <<channels, IPC_STATS, sent_log, recv_log>>
    /\ UNCHANGED <<ringVars, bootVars, lockVars>>

CreateChannelCommit(call) ==
    LET ch == unwrap(call.channel) IN
    /\ call.caller = "create_channel"
    /\ capabilities' = insert(capabilities, call.cap.id, call.cap)
    /\ audit_log' = Append(audit_log,
                           AuditEntry(creation_operation(call.cap), call.cap.id))
    /\ inflight' = inflight \ {call}
    /\ channels' = insert(channels, ch.id,
                          IpcChannel(ch.id, ch.sender_pid, ch.receiver_pid,
                                     call.cap))
    /\ sent_log' = insert(sent_log, ch.id, << >>)
    /\ recv_log' = insert(recv_log, ch.id, << >>)
    /\ last' = [op |-> "create_channel", result |-> "Ok", id |-> ch.id,
                cap |-> call.cap]
    /\ UNCHANGED <<NEXT_CAPABILITY_ID, held, NEXT_CHANNEL_ID, IPC_STATS>>
    /\ UNCHANGED <<ringVars, bootVars, lockVars>>

(***************************************************************************)
(* send_message(&channel, message), lines 355-408: what it returns and the *)
(* ring it leaves.  A `?` returns at the first write that fails, with the  *)
(* writes before it done.                                                  *)
(***************************************************************************)
\* a mutant of send_message: the header is written before the validation
send_message_write_first(channel, message, pad) ==
    LET check == validate_check(channel.capability, "Write")
        w1 == RingBuffer_write(channel.send_ring, header_bytes(message, pad))
        w2 == RingBuffer_write(w1.ring, payload_bytes(message.data))
    IN IF w1.result # "Ok"
       THEN [result |-> w1.result, validated |-> FALSE,
             send_ring |-> channel.send_ring]
       ELSE IF check # "Ok"
       THEN [result |-> "PermissionDenied", validated |-> FALSE,
             send_ring |-> w1.ring]
       ELSE IF w2.result # "Ok"
       THEN [result |-> w2.result, validated |-> TRUE, send_ring |-> w1.ring]
       ELSE [result |-> "Ok", validated |-> TRUE, send_ring |-> w2.ring]

send_message(channel, message, pad) ==
    LET check == validate_check(channel.capability, "Write")
        w1 == RingBuffer_write(channel.send_ring, header_bytes(message, pad))
        w2 == RingBuffer_write(w1.ring, payload_bytes(message.data))
    IN IF check # "Ok"
       THEN [result |-> "PermissionDenied", validated |-> FALSE,
             send_ring |-> channel.send_ring]
       ELSE IF w1.result # "Ok"
       THEN [result |-> w1.result, validated |-> TRUE,
             send_ring |-> channel.send_ring]
       ELSE IF w2.result # "Ok"
       THEN [result |-> w2.result, validated |-> TRUE, send_ring |-> w1.ring]
       ELSE [result |-> "Ok", validated |-> TRUE, send_ring |-> w2.ring]

\* the call on a channel value whose rings are those of channels[channel.id]
SendMessageOn(channel, message, pad) ==
    LET channel_id == channel.id
        r == send_message(channel, message, pad)
    IN
    /\ audit_log' = IF r.validated
                    THEN Append(audit_log,
                                AuditEntry("Used", channel.capability.id))
                    ELSE audit_log
    /\ channels' = [channels EXCEPT ![channel_id].send_ring = r.send_ring]
    /\ IPC_STATS' =
         IF r.result = "Ok"
         THEN [IPC_STATS EXCEPT
                 !.messages_sent = @ + 1,
                 !.zero_copy_transfers =
                     IF message.data.tag = "SharedMemory" THEN @ + 1 ELSE @]
         ELSE IPC_STATS
    /\ sent_log' = IF r.result = "Ok"
                   THEN [sent_log EXCEPT ![channel_id] = Append(@, message)]
                   ELSE sent_log
    /\ last' = [op |-> "send_message", result |-> r.result,
                channel |-> channel_id, message |-> message,
                capability |-> channel.capability]
    /\ UNCHANGED <<capabilities, NEXT_CAPABILITY_ID, held, inflight>>
    /\ UNCHANGED <<NEXT_CHANNEL_ID, recv_log>>
    /\ UNCHANGED <<ringVars, bootVars, lockVars>>

SendMessage(channel_id, message, pad) ==
    SendMessageOn(channels[channel_id], message, pad)

(***************************************************************************)
(* receive_message(&channel), lines 419-475: what it returns, the ring it  *)
(* leaves and the capability it mints, next_id being the value its         *)
(* fetch_add would get.  The nested create_capability is taken in one      *)
(* piece with the rest of the call.                                        *)
(***************************************************************************)
\* a mutant of receive_message: the reads are of the ring send_message writes
receive_message_send_ring(channel, next_id) ==
    LET check == validate_check(channel.capability, "Read")
        r1 == RingBuffer_read(channel.send_ring, HEADER_SIZE)
        id == from_le_bytes(SubSeq(r1.dest, 1, 8))
        sender == from_le_bytes(SubSeq(r1.dest, 9, 12))
        msg_type == msg_type_of(r1.dest[13])
        data_type == r1.dest[14]
        r2 == RingBuffer_read(r1.ring,
                              IF data_type = 0 THEN INLINE_SIZE ELSE REF_SIZE)
        addr == from_le_bytes(SubSeq(r2.dest, 1, 8))
        size == from_le_bytes(SubSeq(r2.dest, 9, 16))
        minted == create_check(READ_ONLY, Some(channel.capability))
        capability == new_capability(next_id, "Memory",
                                     ResourceMemory(addr, size), READ_ONLY,
                                     Some(channel.capability))
        none == [result |-> "PermissionDenied", validated |-> FALSE,
                 recv_ring |-> channel.recv_ring, minted |-> None,
                 message |-> None]
    IN IF check # "Ok" THEN none
       ELSE IF r1.result # "Ok"
       THEN [none EXCEPT !.result = r1.result, !.validated = TRUE]
       ELSE IF r2.result # "Ok"
       THEN [none EXCEPT !.result = r2.result, !.validated = TRUE,
                         !.recv_ring = r1.ring]
       ELSE IF data_type = 0
       THEN [result |-> "Ok", validated |-> TRUE, recv_ring |-> r2.ring,
             minted |-> None,
             message |-> Some(IpcMessage(id, sender, msg_type,
                                         InlineData(r2.dest), << >>))]
       ELSE IF minted # "Ok"
       THEN [none EXCEPT !.result = "CapabilityError", !.validated = TRUE,
                         !.recv_ring = r2.ring]
       ELSE [result |-> "Ok", validated |-> TRUE, recv_ring |-> r2.ring,
             minted |-> Some(capability),
             message |-> Some(IpcMessage(id, sender, msg_type,
                                 SharedMemoryData(addr, size, capability),
                                 << >>))]

receive_message(channel, next_id) ==
    LET check == validate_check(channel.capability, "Read")
        r1 == RingBuffer_read(channel.recv_ring, HEADER_SIZE)
        id == from_le_bytes(SubSeq(r1.dest, 1, 8))
        sender == from_le_bytes(SubSeq(r1.dest, 9, 12))
        msg_type == msg_type_of(r1.dest[13])
        data_type == r1.dest[14]
        r2 == RingBuffer_read(r1.ring,
                              IF data_type = 0 THEN INLINE_SIZE ELSE REF_SIZE)
        addr == from_le_bytes(SubSeq(r2.dest, 1, 8))
        size == from_le_bytes(SubSeq(r2.dest, 9, 16))
        minted == create_check(READ_ONLY, Some(channel.capability))
        capability == new_capability(next_id, "Memory",
                                     ResourceMemory(addr, size), READ_ONLY,
                                     Some(channel.capability))
        none == [result |-> "PermissionDenied", validated |-> FALSE,
                 recv_ring |-> channel.recv_ring, minted |-> None,
                 message |-> None]
    IN IF check # "Ok" THEN none
       ELSE IF r1.result # "Ok"
       THEN [none EXCEPT !.result = r1.result, !.validated = TRUE]
       ELSE IF r2.result # "Ok"
       THEN [none EXCEPT !.result = r2.result, !.validated = TRUE,
                         !.recv_ring = r1.ring]
       ELSE IF data_type = 0
       THEN [result |-> "Ok", validated |-> TRUE, recv_ring |-> r2.ring,
             minted |-> None,
             message |-> Some(IpcMessage(id, sender, msg_type,
                                         InlineData(r2.dest), << >>))]
       ELSE IF minted # "Ok"
       THEN [none EXCEPT !.result = "CapabilityError", !.validated = TRUE,
                         !.recv_ring = r2.ring]
       ELSE [result |-> "Ok", validated |-> TRUE, recv_ring |-> r2.ring,
             minted |-> Some(capability),
             message |-> Some(IpcMessage(id, sender, msg_type,
                                 SharedMemoryData(addr, size, capability),
                                 << >>))]

\* the call on a channel value whose rings are those of channels[channel.id]
ReceiveMessageOn(channel) ==
    LET channel_id == channel.id
        r == receive_message(channel, NEXT_CAPABILITY_ID)
        used == IF r.validated
                THEN Append(audit_log, AuditEntry("Used", channel.capability.id))
                ELSE audit_log
    IN
    /\ channels' = [channels EXCEPT ![channel_id].recv_ring = r.recv_ring]
    /\ IF is_some(r.minted)
       THEN /\ NEXT_CAPABILITY_ID' = NEXT_CAPABILITY_ID + 1
            /\ capabilities' = insert(capabilities, unwrap(r.minted).id,
                                      unwrap(r.minted))
            /\ audit_log' = Append(used,
                                   AuditEntry(creation_operation(unwrap(r.minted)),
                                              unwrap(r.minted).id))
            /\ held' = held \cup {unwrap(r.minted)}
       ELSE /\ audit_log' = used
            /\ UNCHANGED <<NEXT_CAPABILITY_ID, capabilities, held>>
    /\ IPC_STATS' = IF r.result = "Ok"
                    THEN [IPC_STATS EXCEPT !.messages_received = @ + 1]
                    ELSE IPC_STATS
    /\ recv_log' = IF r.result = "Ok"
                   THEN [recv_log EXCEPT
                           ![channel_id] = Append(@, unwrap(r.message))]
                   ELSE recv_log
    /\ last' = [op |-> "receive_message", result |-> r.result,
                channel |-> channel_id, message |-> r.message,
                capability |-> channel.capability]
    /\ UNCHANGED <<inflight, NEXT_CHANNEL_ID, sent_log>>
    /\ UNCHANGED <<ringVars, bootVars, lockVars>>

ReceiveMessage(channel_id) == ReceiveMessageOn(channels[channel_id])

(***************************************************************************)
(* The capability registry under concurrent callers.  Every audit entry a  *)
(* running call may still append is counted against MaxAudit.              *)
(***************************************************************************)
AuditRoom == Len(audit_log) + Cardinality(inflight) < MaxAudit

Next ==
    \/ \E resource_id \in ResourceInputs, permissions \in PermissionInputs,
          parent \in {None} \cup {Some(c) : c \in held} :
          /\ NEXT_CAPABILITY_ID <= MaxCapabilityId
          /\ Cardinality(inflight) < MaxInflight
          /\ AuditRoom
          /\ CreateCapabilityBegin("Memory", resource_id, permissions, parent)
    \/ \E call \in inflight : CreateCapabilityCommit(call)
    \/ \E capability \in held, permission \in ValidateInputs :
          /\ AuditRoom
          /\ ValidateCapability(capability, permission)
    \/ \E capability_id \in 1..NEXT_CAPABILITY_ID :
          /\ AuditRoom
          /\ RevokeCapability(capability_id)

Spec == Init /\ [][Next]_vars

(***************************************************************************)
(* The delegation tree of the registry.                                    *)
(***************************************************************************)
RECURSIVE HasAncestor(_, _, _)
\* TRUE iff the parent chain of entry k passes through id a
HasAncestor(caps, k, a) ==
    IF k \notin DOMAIN caps \/ ~is_some(caps[k].parent) THEN FALSE
    ELSE IF unwrap(caps[k].parent) = a THEN TRUE
    ELSE HasAncestor(caps, unwrap(caps[k].parent), a)

\* revoke_capability(id) has returned Ok: it left its Revoked entry
RevokeReturned(id) ==
    \E i \in 1..Len(audit_log) :
        /\ audit_log[i].operation = "Revoked"
        /\ audit_log[i].capability_id = id

\* p's rights are among q's, right by right
RightsWithin(p, q) ==
    /\ (p.read => q.read)
    /\ (p.write => q.write)
    /\ (p.execute => q.execute)
    /\ (p.delete => q.delete)
    /\ (p.delegate => q.delegate)

CreateErrors ==
    {"ParentRevoked", "NoDelegatePermission", "PermissionEscalation",
     "DelegationDepthExceeded"}

(***************************************************************************)
(* C1.  Revocation cascades transitively: when revoke_capability(a) has    *)
(* returned Ok, the registry entry of a and of every capability whose      *)
(* parent chain passes through a is revoked.                               *)
(***************************************************************************)
C1_RevocationCascadesTransitively ==
    (last.op = "revoke_capability" /\ last.result = "Ok") =>
        \A k \in DOMAIN capabilities :
            (k = last.id \/ HasAncestor(capabilities, k, last.id))
                => capabilities[k].revoked

(***************************************************************************)
(* C2.  A held copy is useless once the registry flag has flipped:         *)
(* validate_capability on a copy of a capability whose registry entry is   *)
(* revoked returns Err(Revoked).                                           *)
(***************************************************************************)
C2_RevokedCopyFailsValidate ==
    (/\ last.op = "validate_capability"
     /\ capabilities[last.cap.id].revoked)
        => last.result = "Revoked"

(***************************************************************************)
(* C3.  No delegation from a revoked parent: a create_capability call made *)
(* with a copy of p after revoke_capability(p.id) returned Ok does not     *)
(* succeed (it returns Err(ParentRevoked) and registers nothing).          *)
(***************************************************************************)
C3_NoDelegationFromRevokedParent ==
    (/\ last.op = "create_capability"
     /\ is_some(last.parent)
     /\ last.parent_revoked_at_call
     /\ RevokeReturned(unwrap(last.parent).id))
        => last.result = "ParentRevoked"

(***************************************************************************)
(* C4.  However a delegation from p and revoke_capability(p.id) interleave,*)
(* once both have returned no registry entry has parent p.id and           *)
(* revoked = FALSE.                                                        *)
(***************************************************************************)
C4_NoActiveChildOfRevoked ==
    \A k \in DOMAIN capabilities :
        (/\ is_some(capabilities[k].parent)
         /\ RevokeReturned(unwrap(capabilities[k].parent)))
            => capabilities[k].revoked

(***************************************************************************)
(* C5.  Frame of revoke_capability(a): an entry that is not a and has no   *)
(* ancestor a is left as it was (flag, permissions, parent, depth), no     *)
(* entry is added or removed, and the values callers hold are untouched.   *)
(***************************************************************************)
C5_RevokeFrame ==
    [][(last'.op = "revoke_capability" /\ last'.result = "Ok") =>
          /\ DOMAIN capabilities' = DOMAIN capabilities
          /\ held' = held
          /\ \A k \in DOMAIN capabilities :
                (k # last'.id /\ ~HasAncestor(capabilities, k, last'.id))
                    => capabilities'[k] = capabilities[k]]_vars

\* a revoke that returned Ok while a sibling of its target stays active
C5_Witness ==
    /\ last.op = "revoke_capability"
    /\ last.result = "Ok"
    /\ \E k \in DOMAIN capabilities :
          /\ k # last.id
          /\ is_some(capabilities[k].parent)
          /\ capabilities[k].parent = capabilities[last.id].parent
          /\ ~capabilities[k].revoked
          /\ \E c \in held : c.id = k /\ validate_check(c, "Read") = "Ok"

(***************************************************************************)
(* C6.  Subset invariant: a successful delegation returns a capability     *)
(* whose rights are among the parent's, whose parent field is the parent's *)
(* id and whose depth is the parent's depth + 1; the registry holds that   *)
(* value.                                                                  *)
(***************************************************************************)
C6_SubsetInvariant ==
    (/\ last.op = "create_capability"
     /\ last.result = "Ok"
     /\ is_some(last.parent))
        => /\ RightsWithin(last.cap.permissions, unwrap(last.parent).permissions)
           /\ last.cap.parent = Some(unwrap(last.parent).id)
           /\ last.cap.depth = unwrap(last.parent).depth + 1
           /\ last.cap.id \in DOMAIN capabilities
           /\ capabilities[last.cap.id].permissions = last.cap.permissions

\* a delegation that attenuates: the child has fewer rights than its parent
C6_Witness ==
    /\ last.op = "create_capability"
    /\ last.result = "Ok"
    /\ is_some(last.parent)
    /\ last.cap.permissions # unwrap(last.parent).permissions
    /\ last.cap.depth = 2

(***************************************************************************)
(* C7 as stated.  A delegation whose permissions are not a subset of the   *)
(* parent's always returns Err(PermissionEscalation).                      *)
(***************************************************************************)
C7_AlwaysPermissionEscalation ==
    (/\ last.op = "create_capability"
     /\ is_some(last.parent)
     /\ ~RightsWithin(last.permissions, unwrap(last.parent).permissions))
        => last.result = "PermissionEscalation"

(***************************************************************************)
(* C7 as amended.  A delegation whose permissions are not a subset of the  *)
(* parent's always fails and leaves the registry and the audit log as they *)
(* were: with ParentRevoked when the parent value passed is flagged        *)
(* revoked, else NoDelegatePermission when it lacks the delegate right,    *)
(* else PermissionEscalation.                                              *)
(***************************************************************************)
C7_NoEscalation ==
    [][(/\ last'.op = "create_capability"
        /\ is_some(last'.parent)
        /\ ~RightsWithin(last'.permissions, unwrap(last'.parent).permissions))
          => /\ last'.result =
                   IF unwrap(last'.parent).revoked THEN "ParentRevoked"
                   ELSE IF ~unwrap(last'.parent).permissions.delegate
                        THEN "NoDelegatePermission"
                   ELSE "PermissionEscalation"
             /\ capabilities' = capabilities
             /\ audit_log' = audit_log]_vars

\* an escalation attempt on a parent that may delegate
C7_Witness ==
    /\ last.op = "create_capability"
    /\ last.result = "PermissionEscalation"
    /\ unwrap(last.parent).permissions.delegate
    /\ ~RightsWithin(last.permissions, unwrap(last.parent).permissions)

(***************************************************************************)
(* SpecDepth: one caller delegating down a single chain, each time from    *)
(* the capability it was handed last, until create_capability refuses.     *)
(* The rights asked for are the parent's own, READ_ONLY or FULL.           *)
(***************************************************************************)
Tip == CHOOSE c \in held : \A d \in held : d.id <= c.id

TipInputs == IF held = {} THEN {None} ELSE {Some(Tip)}

DepthPermissionInputs(parent) ==
    IF is_some(parent)
    THEN {unwrap(parent).permissions, READ_ONLY, FULL}
    ELSE {FULL, READ_DELEGATE}

NextDepth ==
    \/ \E resource_id \in ResourceInputs, parent \in TipInputs :
          \E permissions \in DepthPermissionInputs(parent) :
              /\ inflight = {}
              /\ NEXT_CAPABILITY_ID <= MaxChainId
              /\ CreateCapabilityBegin("Memory", resource_id, permissions, parent)
    \/ \E call \in inflight : CreateCapabilityCommit(call)

SpecDepth == Init /\ [][NextDepth]_vars

(***************************************************************************)
(* C8 as stated.  Delegating from a capability whose depth is 255 always   *)
(* returns Err(DelegationDepthExceeded).                                   *)
(***************************************************************************)
C8_AlwaysDepthExceeded ==
    (/\ last.op = "create_capability"
     /\ is_some(last.parent)
     /\ unwrap(last.parent).depth = 255)
        => last.result = "DelegationDepthExceeded"

(***************************************************************************)
(* C8 as amended.  Delegating from a capability whose depth is 255 always  *)
(* fails: with DelegationDepthExceeded when the parent value is not        *)
(* flagged revoked, has the delegate right and the rights asked for are    *)
(* among its own, and with the error of the first of those three checks    *)
(* that fails otherwise.  So every registry entry has depth <= 255, and    *)
(* the u8 never wraps: a delegated entry's depth is its parent's + 1.      *)
(***************************************************************************)
C8_DepthBound ==
    /\ (/\ last.op = "create_capability"
        /\ is_some(last.parent)
        /\ unwrap(last.parent).depth = 255)
          => last.result =
                IF unwrap(last.parent).revoked THEN "ParentRevoked"
                ELSE IF ~unwrap(last.parent).permissions.delegate
                     THEN "NoDelegatePermission"
                ELSE IF ~RightsWithin(last.permissions,
                                      unwrap(last.parent).permissions)
                     THEN "PermissionEscalation"
                ELSE "DelegationDepthExceeded"
    /\ \A k \in DOMAIN capabilities :
          /\ capabilities[k].depth <= 255
          /\ is_some(capabilities[k].parent) =>
                capabilities[k].depth =
                    capabilities[unwrap(capabilities[k].parent)].depth + 1

\* a delegation from a depth-255 holder of the delegate right is refused
C8_Witness ==
    /\ last.op = "create_capability"
    /\ last.result = "DelegationDepthExceeded"
    /\ unwrap(last.parent).depth = 255
    /\ \E k \in DOMAIN capabilities : capabilities[k].depth = 255

(***************************************************************************)
(* SpecIpc: one sender and one receiver on the channels made by            *)
(* create_channel, beside callers that create memory capabilities and      *)
(* revoke capabilities by id.                                              *)
(***************************************************************************)
MaxChannels == 1

PidInputs == {1, 2}
PaddingInputs == {0, 255}

InlineInput == [i \in 1..INLINE_SIZE |-> IF i = 1 THEN 65 ELSE 0]

\* the messages a sender passes: one inline, one naming a shared region
MessageInputs ==
    {IpcMessage(1, 1, "Request", InlineData(InlineInput), << >>)}
    \cup {IpcMessage(2, 1, "Notification",
                     SharedMemoryData(8192, 4096, c), << >>) : c \in held}

NextIpc ==
    \/ \E sender_pid \in PidInputs, receiver_pid \in PidInputs :
          /\ sender_pid < receiver_pid
          /\ NEXT_CHANNEL_ID <= MaxChannels
          /\ NEXT_CAPABILITY_ID <= MaxCapabilityId
          /\ Cardinality(inflight) < MaxInflight
          /\ AuditRoom
          /\ CreateChannelBegin(sender_pid, receiver_pid)
    \/ \E call \in inflight : CreateChannelCommit(call)
    \/ /\ NEXT_CAPABILITY_ID <= MaxCapabilityId
       /\ Cardinality(inflight) < MaxInflight
       /\ AuditRoom
       /\ CreateCapabilityBegin("Memory", ResourceMemory(8192, 4096),
                                READ_WRITE, None)
    \/ \E call \in inflight : CreateCapabilityCommit(call)
    \/ \E channel_id \in DOMAIN channels, message \in MessageInputs,
          pad \in PaddingInputs :
          /\ AuditRoom
          /\ SendMessage(channel_id, message, pad)
    \/ \E channel_id \in DOMAIN channels :
          /\ AuditRoom
          /\ ReceiveMessage(channel_id)
    \/ \E channel_id \in DOMAIN channels :
          /\ AuditRoom
          /\ RevokeCapability(channels[channel_id].capability.id)

SpecIpc == Init /\ [][NextIpc]_vars

\* the messages send_message accepted on a channel that no receive_message
\* has returned yet
Undelivered(channel_id) ==
    SubSeq(sent_log[channel_id], Len(recv_log[channel_id]) + 1,
           Len(sent_log[channel_id]))

\* the payload of a message as the receiver is to see it
SamePayload(got, sent) ==
    /\ got.tag = sent.tag
    /\ got.tag = "Inline" => got.bytes = sent.bytes
    /\ got.tag = "SharedMemory" => got.addr = sent.addr /\ got.size = sent.size

(***************************************************************************)
(* C9.  Message delivery: every message send_message accepted on a channel *)
(* is returned by a later receive_message on that channel, once and in the *)
(* order sent, with the same id, sender, msg_type and payload.  So the     *)
(* messages returned are a prefix of the messages accepted, and a          *)
(* receive_message call fails only when no accepted message is left to     *)
(* deliver.                                                                *)
(***************************************************************************)
C9_MessageDelivery ==
    \A channel_id \in DOMAIN channels :
        /\ Len(recv_log[channel_id]) <= Len(sent_log[channel_id])
        /\ \A i \in 1..Len(recv_log[channel_id]) :
              /\ recv_log[channel_id][i].id = sent_log[channel_id][i].id
              /\ recv_log[channel_id][i].sender = sent_log[channel_id][i].sender
              /\ recv_log[channel_id][i].msg_type
                    = sent_log[channel_id][i].msg_type
              /\ SamePayload(recv_log[channel_id][i].data,
                             sent_log[channel_id][i].data)
        /\ (last.op = "receive_message" /\ last.channel = channel_id
                /\ last.result # "Ok")
              => Undelivered(channel_id) = << >>

(***************************************************************************)
(* C10.  Zero-copy receive mints a derived capability: a receive_message   *)
(* call made while the oldest undelivered message of the channel is a      *)
(* SharedMemory{addr, size} one returns Ok with a data capability that is  *)
(* new (its id is not the channel capability's), grants read and not       *)
(* write, names exactly Memory{start: addr, size} and has the channel      *)
(* capability's id as parent.                                              *)
(***************************************************************************)
C10_ReceiveMintsDerivedCapability ==
    \A channel_id \in DOMAIN channels :
        (/\ last.op = "receive_message"
         /\ last.channel = channel_id
         /\ \/ /\ last.result = "Ok"
               /\ sent_log[channel_id][Len(recv_log[channel_id])].data.tag
                     = "SharedMemory"
            \/ /\ last.result # "Ok"
               /\ Undelivered(channel_id) # << >>
               /\ Head(Undelivered(channel_id)).data.tag = "SharedMemory")
        => /\ last.result = "Ok"
           /\ LET sent == sent_log[channel_id][Len(recv_log[channel_id])].data
                  got == unwrap(last.message).data
                  gate == channels[channel_id].capability
              IN /\ got.tag = "SharedMemory"
                 /\ got.capability.id # gate.id
                 /\ got.capability.permissions.read
                 /\ ~got.capability.permissions.write
                 /\ got.capability.resource_id
                       = ResourceMemory(sent.addr, sent.size)
                 /\ got.capability.parent = Some(gate.id)

(***************************************************************************)
(* One RingBuffer driven directly: a producer calling write and a consumer *)
(* calling read, each call taken in one piece.  The k-th write carries     *)
(* Payload(k, n), so that the bytes of two writes differ at every offset.  *)
(* The consumer reads into a destination as long as the oldest write not   *)
(* yet read (a matching read), or into one byte when nothing is            *)
(* outstanding.                                                            *)
(***************************************************************************)
\* write calls made on the transport
MaxWrites == 3

WriteLens == {1, 3, RING_BUFFER_SIZE - 1}

Payload(k, n) == [i \in 1..n |-> (16 * k + i) % 256]

RECURSIVE TotalLen(_)
TotalLen(chunks) ==
    IF chunks = << >> THEN 0 ELSE Len(Head(chunks)) + TotalLen(Tail(chunks))

\* bytes of the region that hold no unread data
FreeBytes == transport.size - TotalLen(outstanding)

RingWrite(data) ==
    LET w == RingBuffer_write(transport, data) IN
    /\ transport' = w.ring
    /\ writes' = writes + 1
    /\ outstanding' = IF w.result = "Ok" THEN Append(outstanding, data)
                      ELSE outstanding
    /\ overrun' = (overrun \/ (w.result = "Ok" /\ Len(data) > FreeBytes))
    /\ last' = [op |-> "write", result |-> w.result, data |-> data,
                free_before |-> FreeBytes]
    /\ UNCHANGED <<reads, producer, consumer>>
    /\ UNCHANGED <<capVars, ipcVars, bootVars, lockVars>>

RingRead(buffer_len) ==
    LET r == RingBuffer_read(transport, buffer_len) IN
    /\ transport' = r.ring
    /\ reads' = IF r.result = "Ok" THEN reads + 1 ELSE reads
    /\ outstanding' = IF r.result = "Ok" /\ outstanding # << >>
                      THEN Tail(outstanding) ELSE outstanding
    /\ last' = [op |-> "read", result |-> r.result, n |-> r.n,
                dest |-> r.dest,
                expected |-> IF outstanding = << >> THEN None
                             ELSE Some(Head(outstanding))]
    /\ UNCHANGED <<writes, overrun, producer, consumer>>
    /\ UNCHANGED <<capVars, ipcVars, bootVars, lockVars>>

NextRing ==
    \/ \E n \in WriteLens :
          /\ writes < MaxWrites
          /\ RingWrite(Payload(writes + 1, n))
    \/ \E buffer_len \in {IF outstanding = << >> THEN 1
                          ELSE Len(Head(outstanding))} :
          RingRead(buffer_len)

SpecRing == Init /\ [][NextRing]_vars

(***************************************************************************)
(* C11: round trip.  While no write was accepted beyond the free bytes, a  *)
(* matching read returns Ok with exactly the bytes of the oldest write not *)
(* yet read, in order, also when they wrap around the end of the region.   *)
(***************************************************************************)
C11_RoundTrip ==
    (last.op = "read" /\ is_some(last.expected) /\ ~overrun) =>
        /\ last.result = "Ok"
        /\ last.n = Len(unwrap(last.expected))
        /\ last.dest = unwrap(last.expected)

(***************************************************************************)
(* C12: full-buffer rejection.  With writes totaling the 4096 bytes of     *)
(* capacity accepted and nothing read, the next write of one byte or more  *)
(* returns BufferFull; and a write that fits the bytes freed by reads is   *)
(* accepted.                                                               *)
(***************************************************************************)
C12_FullBufferRejection ==
    last.op = "write" =>
        /\ (reads = 0 /\ last.free_before = 0 /\ Len(last.data) > 0) =>
               last.result = "BufferFull"
        /\ (reads > 0 /\ last.free_before >= Len(last.data)) =>
               last.result = "Ok"

(***************************************************************************)
(* C13: a write longer than the free bytes returns an error and leaves the *)
(* cursors, the count and the region as they were.                         *)
(***************************************************************************)
C13_OversizedWriteRejected ==
    [][(last'.op = "write" /\ Len(last'.data) > FreeBytes) =>
           (last'.result # "Ok" /\ transport' = transport)]_vars

(***************************************************************************)
(* validate_capability over the values of Capability: the copies callers   *)
(* hold and the values the registry stores (which carry the revoked flag), *)
(* each also with an expiry set.                                           *)
(***************************************************************************)
ExpiryInputs == {0, 1}

CapabilityInputs ==
    {[c EXCEPT !.expiry = e] :
        c \in held \cup {capabilities[k] : k \in DOMAIN capabilities},
        e \in ExpiryInputs}

NextValidate ==
    \/ \E permissions \in PermissionInputs :
          /\ NEXT_CAPABILITY_ID <= MaxCapabilityId
          /\ Cardinality(inflight) < MaxInflight
          /\ AuditRoom
          /\ CreateCapabilityBegin("Memory", ResourceMemory(4096, 4096),
                                   permissions, None)
    \/ \E call \in inflight : CreateCapabilityCommit(call)
    \/ \E capability \in CapabilityInputs, permission \in ValidateInputs :
          /\ AuditRoom
          /\ ValidateCapability(capability, permission)
    \/ \E capability_id \in DOMAIN capabilities :
          /\ AuditRoom
          /\ RevokeCapability(capability_id)

SpecValidate == Init /\ [][NextValidate]_vars

(***************************************************************************)
(* C14: validate_capability(c, p) returns Revoked if c is flagged revoked, *)
(* else Expired if c.expiry is not 0 and the time is past it, else         *)
(* PermissionDenied if p is not among c's permissions, else Ok; with       *)
(* expiry 0 it never returns Expired; and a call that returns Ok appends   *)
(* exactly one Used entry carrying c.id.                                   *)
(***************************************************************************)
C14_ValidateContract ==
    [][last'.op = "validate_capability" =>
         LET c == last'.cap
             p == last'.permission
             past == c.expiry # 0 /\ get_timestamp > c.expiry
         IN /\ c.revoked => last'.result = "Revoked"
            /\ (~c.revoked /\ past) => last'.result = "Expired"
            /\ (~c.revoked /\ ~past /\ ~has_permission(c.permissions, p)) =>
                   last'.result = "PermissionDenied"
            /\ (~c.revoked /\ ~past /\ has_permission(c.permissions, p)) =>
                   last'.result = "Ok"
            /\ c.expiry = 0 => last'.result # "Expired"
            /\ last'.result = "Ok" =>
                   /\ Len(audit_log') = Len(audit_log) + 1
                   /\ SubSeq(audit_log', 1, Len(audit_log)) = audit_log
                   /\ audit_log'[Len(audit_log')].operation = "Used"
                   /\ audit_log'[Len(audit_log')].capability_id = c.id]_vars

\* a validation that returned Ok and left its Used entry at the end of the log
C14_Witness ==
    /\ last.op = "validate_capability"
    /\ last.result = "Ok"
    /\ audit_log[Len(audit_log)] = AuditEntry("Used", last.cap.id)

(***************************************************************************)
(* send_message and receive_message over the values of IpcChannel: each    *)
(* channel as create_channel returned it, and the same channel with the    *)
(* capability field holding the value the registry stores under its id     *)
(* (which carries the revoked flag once the capability is revoked).        *)
(***************************************************************************)
ChannelInputs ==
    {channels[id] : id \in DOMAIN channels}
    \cup {[channels[id] EXCEPT
             !.capability = capabilities[channels[id].capability.id]] :
          id \in DOMAIN channels}

NextGate ==
    \/ \E sender_pid \in PidInputs, receiver_pid \in PidInputs :
          /\ sender_pid < receiver_pid
          /\ NEXT_CHANNEL_ID <= MaxChannels
          /\ NEXT_CAPABILITY_ID <= MaxCapabilityId
          /\ Cardinality(inflight) < MaxInflight
          /\ AuditRoom
          /\ CreateChannelBegin(sender_pid, receiver_pid)
    \/ \E call \in inflight : CreateChannelCommit(call)
    \/ /\ NEXT_CAPABILITY_ID <= MaxCapabilityId
       /\ Cardinality(inflight) < MaxInflight
       /\ AuditRoom
       /\ CreateCapabilityBegin("Memory", ResourceMemory(8192, 4096),
                                READ_WRITE, None)
    \/ \E call \in inflight : CreateCapabilityCommit(call)
    \/ \E channel \in ChannelInputs, message \in MessageInputs,
          pad \in PaddingInputs :
          /\ AuditRoom
          /\ SendMessageOn(channel, message, pad)
    \/ \E channel \in ChannelInputs :
          /\ AuditRoom
          /\ ReceiveMessageOn(channel)
    \/ \E channel_id \in DOMAIN channels :
          /\ AuditRoom
          /\ RevokeCapability(channels[channel_id].capability.id)

SpecGate == Init /\ [][NextGate]_vars

\* the right each of the two calls validates the channel capability for
GateRight(op) == IF op = "send_message" THEN "Write" ELSE "Read"

(***************************************************************************)
(* C15: capability gating.  A send_message whose channel capability fails  *)
(* validation for Write, and a receive_message whose channel capability    *)
(* fails it for Read, returns an error and leaves both rings of every      *)
(* channel, the IPC statistics and the registry (capabilities, audit log,  *)
(* id counter) as they were.                                               *)
(***************************************************************************)
C15_GateBeforeRings ==
    [][(/\ last'.op \in {"send_message", "receive_message"}
        /\ validate_check(last'.capability, GateRight(last'.op)) # "Ok") =>
           /\ last'.result = "PermissionDenied"
           /\ channels' = channels
           /\ IPC_STATS' = IPC_STATS
           /\ capabilities' = capabilities
           /\ audit_log' = audit_log
           /\ NEXT_CAPABILITY_ID' = NEXT_CAPABILITY_ID]_vars

\* a send on a channel value whose capability is flagged revoked was refused
C15_Witness ==
    /\ last.op = "send_message"
    /\ last.capability.revoked
    /\ last.result = "PermissionDenied"

(***************************************************************************)
(* One producer in RingBuffer::write and one consumer in RingBuffer::read, *)
(* step by step.  A step is one access to the shared ring: an atomic load, *)
(* store or fetch_add/fetch_sub, or the copy_nonoverlapping calls of one   *)
(* branch.  The loads of a cursor the thread itself owns are taken with    *)
(* the step before them.  Each step applies the part of RingBuffer_write   *)
(* or RingBuffer_read it stands for to the values the thread has loaded.   *)
(***************************************************************************)
\* write calls the producer makes
MaxSpscWrites == 2

SpscWriteLens == {3, RING_BUFFER_SIZE - 1}
SpscReadLens == {3}

\* lines 120-125: the count check and the load of write_pos
WriteLoad(data) ==
    /\ producer.pc = "idle"
    /\ writes' = writes + 1
    /\ IF transport.count >= RING_BUFFER_SIZE
       THEN /\ last' = [op |-> "write", result |-> "BufferFull", data |-> data]
            /\ UNCHANGED producer
       ELSE /\ producer' = [pc |-> "copy", data |-> data,
                            write_pos |-> transport.write_pos]
            /\ UNCHANGED last
    /\ UNCHANGED <<transport, outstanding, reads, overrun, consumer>>
    /\ UNCHANGED <<capVars, ipcVars, bootVars, lockVars>>

\* the ring RingBuffer::write leaves, from the write_pos the producer loaded
WriteResult ==
    RingBuffer_write([transport EXCEPT !.write_pos = producer.write_pos],
                     producer.data).ring

\* lines 130-152: the payload bytes are stored
WriteCopy ==
    /\ producer.pc = "copy"
    /\ transport' = [transport EXCEPT !.buffer = WriteResult.buffer]
    /\ producer' = [producer EXCEPT !.pc = "store_pos"]
    /\ UNCHANGED <<outstanding, writes, reads, overrun, consumer, last>>
    /\ UNCHANGED <<capVars, ipcVars, bootVars, lockVars>>

\* lines 155-156: write_pos.store(new_pos, Release)
WriteStorePos ==
    /\ producer.pc = "store_pos"
    /\ transport' = [transport EXCEPT !.write_pos = WriteResult.write_pos]
    /\ producer' = [producer EXCEPT !.pc = "add_count"]
    /\ UNCHANGED <<outstanding, writes, reads, overrun, consumer, last>>
    /\ UNCHANGED <<capVars, ipcVars, bootVars, lockVars>>

\* lines 159-162: count.fetch_add(1, Release) and the return
WriteAddCount ==
    /\ producer.pc = "add_count"
    /\ transport' = [transport EXCEPT !.count = @ + 1]
    /\ producer' = [pc |-> "idle"]
    /\ last' = [op |-> "write", result |-> "Ok", data |-> producer.data]
    /\ UNCHANGED <<outstanding, writes, reads, overrun, consumer>>
    /\ UNCHANGED <<capVars, ipcVars, bootVars, lockVars>>

\* lines 172-177: the count check and the load of read_pos
ReadLoad(buffer_len) ==
    /\ consumer.pc = "idle"
    /\ IF transport.count = 0
       THEN /\ last' = [op |-> "read", result |-> "BufferEmpty", n |-> 0,
                        dest |-> [i \in 1..buffer_len |-> 0]]
            /\ UNCHANGED consumer
       ELSE /\ consumer' = [pc |-> "load_write_pos", buffer_len |-> buffer_len,
                            read_pos |-> transport.read_pos]
            /\ UNCHANGED last
    /\ UNCHANGED <<transport, outstanding, writes, reads, overrun, producer>>
    /\ UNCHANGED <<capVars, ipcVars, bootVars, lockVars>>

\* line 180: write_pos.load(Acquire)
ReadLoadWritePos ==
    /\ consumer.pc = "load_write_pos"
    /\ consumer' = [pc |-> "copy", buffer_len |-> consumer.buffer_len,
                    read_pos |-> consumer.read_pos,
                    write_pos |-> transport.write_pos]
    /\ UNCHANGED <<transport, outstanding, writes, reads, overrun, producer,
                   last>>
    /\ UNCHANGED <<capVars, ipcVars, bootVars, lockVars>>

\* what RingBuffer::read returns and leaves, from the cursors the consumer
\* loaded and the region as it is now
ReadResult ==
    RingBuffer_read([transport EXCEPT !.read_pos = consumer.read_pos,
                                      !.write_pos = consumer.write_pos],
                    consumer.buffer_len)

\* lines 181-212: the bytes are copied out
ReadCopy ==
    /\ consumer.pc = "copy"
    /\ consumer' = [pc |-> "store_pos", n |-> ReadResult.n,
                    dest |-> ReadResult.dest,
                    new_pos |-> ReadResult.ring.read_pos]
    /\ UNCHANGED <<transport, outstanding, writes, reads, overrun, producer,
                   last>>
    /\ UNCHANGED <<capVars, ipcVars, bootVars, lockVars>>

\* lines 215-216: read_pos.store(new_pos, Release)
ReadStorePos ==
    /\ consumer.pc = "store_pos"
    /\ transport' = [transport EXCEPT !.read_pos = consumer.new_pos]
    /\ consumer' = [consumer EXCEPT !.pc = "sub_count"]
    /\ UNCHANGED <<outstanding, writes, reads, overrun, producer, last>>
    /\ UNCHANGED <<capVars, ipcVars, bootVars, lockVars>>

\* lines 219-222: count.fetch_sub(1, Release) and the return
ReadSubCount ==
    /\ consumer.pc = "sub_count"
    /\ transport' = [transport EXCEPT !.count = @ - 1]
    /\ consumer' = [pc |-> "idle"]
    /\ last' = [op |-> "read", result |-> "Ok", n |-> consumer.n,
                dest |-> consumer.dest]
    /\ UNCHANGED <<outstanding, writes, reads, overrun, producer>>
    /\ UNCHANGED <<capVars, ipcVars, bootVars, lockVars>>

NextSpsc ==
    \/ \E n \in SpscWriteLens :
          /\ writes < MaxSpscWrites
          /\ WriteLoad(Payload(writes + 1, n))
    \/ WriteCopy
    \/ WriteStorePos
    \/ WriteAddCount
    \/ \E buffer_len \in SpscReadLens : ReadLoad(buffer_len)
    \/ ReadLoadWritePos
    \/ ReadCopy
    \/ ReadStorePos
    \/ ReadSubCount

SpecSpsc == Init /\ [][NextSpsc]_vars

\* the offsets of the n bytes from offset `at` on, around the end of the region
Offsets(at, n) == {(at + i) % transport.size : i \in 0..(n - 1)}

\* every byte of the producer's data is in the region where the write puts it
PayloadStored ==
    \A i \in 1..Len(producer.data) :
        LET o == (producer.write_pos + i - 1) % transport.size IN
        o \in DOMAIN transport.buffer /\ transport.buffer[o] = producer.data[i]

\* the offsets holding bytes of a write that has not published its cursor
UnpublishedOffsets ==
    IF producer.pc = "store_pos"
    THEN Offsets(producer.write_pos, Len(producer.data))
    ELSE {}

(***************************************************************************)
(* C16: SPSC publication ordering.  The producer changes write_pos and     *)
(* count only with all payload bytes of its write in the region, and the   *)
(* bytes a read copies out are never bytes of a write that has not yet     *)
(* published its cursor.                                                   *)
(***************************************************************************)
C16_PublicationOrdering ==
    [][/\ (transport'.write_pos # transport.write_pos
             \/ transport'.count > transport.count) => PayloadStored
       /\ (consumer.pc = "copy" /\ consumer'.pc = "store_pos") =>
              Offsets(consumer.read_pos, consumer'.n)
                  \cap UnpublishedOffsets = {}]_vars

(***************************************************************************)
(* Kernel bootstrap: capability::init() called by up to MaxInitThreads     *)
(* threads, from the state of the statics before any call.  A step is one  *)
(* access to a static: the load of the flag, the assignment to the         *)
(* registry, the fetch_add, the critical section of                        *)
(* create_root_capability, and the store of the flag.  The registry before *)
(* the first assignment (None) is the empty map and log: no step reads it  *)
(* before the assignment of the same call.  A panic halts the kernel.      *)
(***************************************************************************)
\* threads that may call capability::init()
MaxInitThreads == 3

InitThreads == 1..MaxInitThreads

InitBoot ==
    /\ capabilities = << >>
    /\ audit_log = << >>
    /\ NEXT_CAPABILITY_ID = InitialCapabilityId
    /\ held = {}
    /\ inflight = {}
    /\ channels = << >>
    /\ NEXT_CHANNEL_ID = InitialChannelId
    /\ IPC_STATS = IpcStats(0, 0, 0, 0)
    /\ sent_log = << >>
    /\ recv_log = << >>
    /\ transport = RingBuffer_new(RING_BUFFER_SIZE)
    /\ outstanding = << >>
    /\ writes = 0
    /\ reads = 0
    /\ overrun = FALSE
    /\ producer = [pc |-> "idle"]
    /\ consumer = [pc |-> "idle"]
    /\ CAPABILITY_INITIALIZED = FALSE
    /\ init_calls = [t \in InitThreads |-> [pc |-> "idle"]]
    /\ registry_lock = 0
    /\ stats_lock = 0
    /\ api_calls = [t \in CallThreads |-> [pc |-> 0, made |-> 0]]
    /\ last = [op |-> "boot", result |-> "Ok"]

\* lines 218-220: the load of the flag and the panic
InitCheck(t) ==
    /\ init_calls[t].pc = "idle"
    /\ IF CAPABILITY_INITIALIZED
       THEN /\ init_calls' = [init_calls EXCEPT ![t] = [pc |-> "panicked"]]
            /\ last' = [op |-> "init", result |-> "Panic", thread |-> t]
       ELSE /\ init_calls' = [init_calls EXCEPT ![t] = [pc |-> "set_registry"]]
            /\ UNCHANGED last
    /\ UNCHANGED CAPABILITY_INITIALIZED
    /\ UNCHANGED <<capVars, ipcVars, ringVars, lockVars>>

\* lines 226-231: *CAPABILITY_REGISTRY.lock() = Some(registry)
InitSetRegistry(t) ==
    /\ init_calls[t].pc = "set_registry"
    /\ capabilities' = << >>
    /\ audit_log' = << >>
    /\ init_calls' = [init_calls EXCEPT ![t] = [pc |-> "fetch_add"]]
    /\ UNCHANGED <<NEXT_CAPABILITY_ID, held, inflight, CAPABILITY_INITIALIZED,
                   last>>
    /\ UNCHANGED <<ipcVars, ringVars, lockVars>>

\* line 252: NEXT_CAPABILITY_ID.fetch_add(1)
InitRootFetchAdd(t) ==
    /\ init_calls[t].pc = "fetch_add"
    /\ NEXT_CAPABILITY_ID' = NEXT_CAPABILITY_ID + 1
    /\ init_calls' = [init_calls EXCEPT
                        ![t] = [pc |-> "insert", id |-> NEXT_CAPABILITY_ID]]
    /\ UNCHANGED <<capabilities, audit_log, held, inflight,
                   CAPABILITY_INITIALIZED, last>>
    /\ UNCHANGED <<ipcVars, ringVars, lockVars>>

\* lines 268-279: under the lock, the insert and the Created entry
InitRootInsert(t) ==
    LET id == init_calls[t].id IN
    /\ init_calls[t].pc = "insert"
    /\ capabilities' = insert(capabilities, id, create_root_capability(id))
    /\ audit_log' = Append(audit_log, AuditEntry("Created", id))
    /\ init_calls' = [init_calls EXCEPT ![t] = [pc |-> "store_flag"]]
    /\ UNCHANGED <<NEXT_CAPABILITY_ID, held, inflight, CAPABILITY_INITIALIZED,
                   last>>
    /\ UNCHANGED <<ipcVars, ringVars, lockVars>>

\* line 244: CAPABILITY_INITIALIZED.store(true, Release) and the return
InitStoreFlag(t) ==
    /\ init_calls[t].pc = "store_flag"
    /\ CAPABILITY_INITIALIZED' = TRUE
    /\ init_calls' = [init_calls EXCEPT ![t] = [pc |-> "done"]]
    /\ last' = [op |-> "init", result |-> "Ok", thread |-> t]
    /\ UNCHANGED <<capVars, ipcVars, ringVars, lockVars>>

Halted == \E t \in InitThreads : init_calls[t].pc = "panicked"

NextBoot ==
    \/ \E t \in InitThreads : ~Halted /\ InitCheck(t)
    \/ \E t \in InitThreads : ~Halted /\ InitSetRegistry(t)
    \/ \E t \in InitThreads : ~Halted /\ InitRootFetchAdd(t)
    \/ \E t \in InitThreads : ~Halted /\ InitRootInsert(t)
    \/ \E t \in InitThreads : ~Halted /\ InitStoreFlag(t)

SpecBoot == InitBoot /\ [][NextBoot]_vars

\* the shape of the root capability
IsRoot(c) ==
    /\ c.permissions = FULL
    /\ c.parent = None
    /\ c.depth = 0
    /\ c.expiry = 0

(***************************************************************************)
(* C17: the root capability is created exactly once.  The registry never   *)
(* holds more than one capability and one Created entry, that capability   *)
(* has full permissions, no parent, depth 0 and expiry 0, no step removes  *)
(* an entry or an audit entry (the registry is not replaced), at most one  *)
(* id is taken, and a call of init() that starts when another call has     *)
(* already started, finished or not, panics.                               *)
(***************************************************************************)
C17_RootCreatedOnce ==
    [][/\ Cardinality(DOMAIN capabilities') <= 1
       /\ \A k \in DOMAIN capabilities' : IsRoot(capabilities'[k])
       /\ Len(audit_log') <= 1
       /\ \A i \in 1..Len(audit_log') : audit_log'[i].operation = "Created"
       /\ DOMAIN capabilities \subseteq DOMAIN capabilities'
       /\ Len(audit_log) <= Len(audit_log')
       /\ NEXT_CAPABILITY_ID' <= InitialCapabilityId + 1
       /\ \A t \in InitThreads :
            (/\ init_calls[t].pc = "idle"
             /\ init_calls'[t].pc # "idle"
             /\ \E u \in InitThreads \ {t} : init_calls[u].pc # "idle") =>
                init_calls'[t].pc = "panicked"]_vars

(***************************************************************************)
(* capability::get_stats(), lines 550-564: one critical section that reads *)
(* the registry.                                                           *)
(***************************************************************************)
\* a mutant of get_stats: the active count leaves the flag out
get_stats_active_unfiltered(caps, log) ==
    [total_capabilities |-> Cardinality(DOMAIN caps),
     active_capabilities |-> Cardinality(DOMAIN caps),
     revoked_capabilities |->
         Cardinality({k \in DOMAIN caps : caps[k].revoked}),
     audit_entries |-> Len(log)]

get_stats(caps, log) ==
    [total_capabilities |-> Cardinality(DOMAIN caps),
     active_capabilities |->
         Cardinality({k \in DOMAIN caps : ~caps[k].revoked}),
     revoked_capabilities |->
         Cardinality({k \in DOMAIN caps : caps[k].revoked}),
     audit_entries |-> Len(log)]

GetStats ==
    /\ last' = [op |-> "get_stats", result |-> "Ok",
                stats |-> get_stats(capabilities, audit_log)]
    /\ UNCHANGED <<capVars, ipcVars, ringVars, bootVars, lockVars>>

(***************************************************************************)
(* The running kernel: every call of the capability registry and of the    *)
(* IPC channel, with up to MaxConcurrentCreates create_capability calls    *)
(* (those of create_channel included) between their fetch_add and their    *)
(* insert at once.                                                         *)
(***************************************************************************)
MaxConcurrentCreates == 2

NextKernel ==
    \/ \E permissions \in {FULL, READ_ONLY},
          parent \in {None} \cup {Some(c) : c \in held} :
          /\ NEXT_CAPABILITY_ID <= MaxCapabilityId
          /\ Cardinality(inflight) < MaxConcurrentCreates
          /\ AuditRoom
          /\ CreateCapabilityBegin("Memory", ResourceMemory(8192, 4096),
                                   permissions, parent)
    \/ \E call \in inflight : CreateCapabilityCommit(call)
    \/ \E sender_pid \in PidInputs, receiver_pid \in PidInputs :
          /\ sender_pid < receiver_pid
          /\ NEXT_CHANNEL_ID <= MaxChannels
          /\ NEXT_CAPABILITY_ID <= MaxCapabilityId
          /\ Cardinality(inflight) < MaxConcurrentCreates
          /\ AuditRoom
          /\ CreateChannelBegin(sender_pid, receiver_pid)
    \/ \E call \in inflight : CreateChannelCommit(call)
    \/ \E capability \in held :
          /\ AuditRoom
          /\ ValidateCapability(capability, "Write")
    \/ \E capability_id \in 1..NEXT_CAPABILITY_ID :
          /\ AuditRoom
          /\ RevokeCapability(capability_id)
    \/ \E channel_id \in DOMAIN channels, message \in MessageInputs :
          /\ AuditRoom
          /\ SendMessage(channel_id, message, 0)
    \/ \E channel_id \in DOMAIN channels :
          /\ AuditRoom
          /\ ReceiveMessage(channel_id)
    \/ GetStats

SpecKernel == Init /\ [][NextKernel]_vars

\* the ids of the calls that hold an id and have not inserted yet
InflightIds(calls) == {call.cap.id : call \in calls}

(***************************************************************************)
(* C18: capability ids are unique, monotonically assigned and never        *)
(* reused.  A call that takes an id gets one greater than every id in the  *)
(* registry and every id held by a running call; no two running calls hold *)
(* the same id; every capability is stored under its own id; and no step   *)
(* removes an entry or changes a field other than the revoked flag of an   *)
(* entry already stored (no insert overwrites one).                        *)
(***************************************************************************)
C18_IdsUnique ==
    [][/\ \A call \in inflight' \ inflight :
            /\ \A k \in DOMAIN capabilities : k < call.cap.id
            /\ \A id \in InflightIds(inflight) : id < call.cap.id
       /\ \A a, b \in inflight' : a.cap.id = b.cap.id => a = b
       /\ InflightIds(inflight') \cap DOMAIN capabilities' = {}
       /\ \A k \in DOMAIN capabilities' : capabilities'[k].id = k
       /\ \A k \in DOMAIN capabilities :
            /\ k \in DOMAIN capabilities'
            /\ [capabilities'[k] EXCEPT !.revoked = FALSE]
                 = [capabilities[k] EXCEPT !.revoked = FALSE]]_vars

\* two calls ran at once and the one with the greater id inserted first
C18_Witness ==
    /\ last.op \in {"create_capability", "create_channel"}
    /\ last.result = "Ok"
    /\ last.cap.id \in DOMAIN capabilities
    /\ \E call \in inflight : call.cap.id < last.cap.id

(***************************************************************************)
(* C19: revocation is terminal.  A capability whose revoked flag in the    *)
(* registry is true is still in the registry with the flag true after      *)
(* every step, whichever call takes it.                                    *)
(***************************************************************************)
C19_RevocationTerminal ==
    [][\A k \in DOMAIN capabilities :
          capabilities[k].revoked =>
              (k \in DOMAIN capabilities' /\ capabilities'[k].revoked)]_vars

\* a revoked capability was revoked once more and is still flagged
C19_Witness ==
    /\ last.op = "revoke_capability"
    /\ last.result = "Ok"
    /\ capabilities[last.id].revoked
    /\ Cardinality({i \in 1..Len(audit_log) :
                      audit_log[i] = AuditEntry("Revoked", last.id)}) >= 2

(***************************************************************************)
(* C20: capabilities are never deleted.  The set of registered ids only    *)
(* grows; what get_stats() reports has total_capabilities =                *)
(* active_capabilities + revoked_capabilities and audit_entries = the      *)
(* length of the audit log, in the state a step leaves and in what a call  *)
(* has just returned; and total_capabilities never decreases.              *)
(***************************************************************************)
C20_NeverDeleted ==
    [][LET before == get_stats(capabilities, audit_log)
           after == get_stats(capabilities', audit_log')
       IN /\ DOMAIN capabilities \subseteq DOMAIN capabilities'
          /\ after.total_capabilities >= before.total_capabilities
          /\ after.total_capabilities =
                 after.active_capabilities + after.revoked_capabilities
          /\ after.audit_entries = Len(audit_log')
          /\ last'.op = "get_stats" =>
               /\ last'.stats.total_capabilities =
                      last'.stats.active_capabilities
                        + last'.stats.revoked_capabilities
               /\ last'.stats.total_capabilities
                      = Cardinality(DOMAIN capabilities)
               /\ last'.stats.audit_entries = Len(audit_log)]_vars

\* get_stats() returned with active and revoked capabilities in the registry
C20_Witness ==
    /\ last.op = "get_stats"
    /\ last.stats.revoked_capabilities >= 1
    /\ last.stats.active_capabilities >= 2
    /\ last.stats.audit_entries = Len(audit_log)

(***************************************************************************)
(* The registry with its audit log, the caller of init() keeping the root  *)
(* value that create_root_capability returned to it (root_cap, line 234),  *)
(* so that capabilities are delegated from the root as well.               *)
(***************************************************************************)
root_cap == create_root_capability(InitialCapabilityId)

NextAudit ==
    \/ \E permissions \in {FULL, READ_ONLY},
          parent \in {None, Some(root_cap)} \cup {Some(c) : c \in held} :
          /\ NEXT_CAPABILITY_ID <= MaxCapabilityId
          /\ Cardinality(inflight) < MaxConcurrentCreates
          /\ AuditRoom
          /\ CreateCapabilityBegin("Memory", ResourceMemory(4096, 4096),
                                   permissions, parent)
    \/ \E call \in inflight : CreateCapabilityCommit(call)
    \/ \E capability \in held :
          /\ AuditRoom
          /\ ValidateCapability(capability, "Read")
    \/ \E capability_id \in DOMAIN capabilities \ {InitialCapabilityId} :
          /\ AuditRoom
          /\ RevokeCapability(capability_id)

SpecAudit == Init /\ [][NextAudit]_vars

\* the audit operation that records a call returning Ok
RecordedAs(call) ==
    CASE call.op = "create_capability" ->
             IF is_some(call.cap.parent) THEN "Delegated" ELSE "Created"
      [] call.op = "validate_capability" -> "Used"
      [] call.op = "revoke_capability" -> "Revoked"

\* the id of the capability a call returning Ok worked on
RecordedId(call) ==
    IF call.op = "revoke_capability" THEN call.id ELSE call.cap.id

(***************************************************************************)
(* C21: audit completeness.  Every create_capability, validate_capability  *)
(* and revoke_capability call that returns Ok appends exactly one entry,   *)
(* of the operation performed and with the capability's id, at the end of  *)
(* the log, and nothing else changes the log: so root creation, one        *)
(* delegation from the root, one validate(child, Read) and one             *)
(* revoke(child.id) leave exactly [Created, Delegated, Used, Revoked].     *)
(***************************************************************************)
C21_AuditCompleteness ==
    [][IF /\ last'.op \in {"create_capability", "validate_capability",
                          "revoke_capability"}
          /\ last'.result = "Ok"
       THEN /\ Len(audit_log') = Len(audit_log) + 1
            /\ SubSeq(audit_log', 1, Len(audit_log)) = audit_log
            /\ audit_log'[Len(audit_log')].operation = RecordedAs(last')
            /\ audit_log'[Len(audit_log')].capability_id = RecordedId(last')
       ELSE audit_log' = audit_log]_vars

\* the run of the example: root, a child of the root, validate(child, Read),
\* revoke(child.id)
C21_Witness ==
    /\ last.op = "revoke_capability"
    /\ last.result = "Ok"
    /\ last.id \in DOMAIN capabilities
    /\ capabilities[last.id].parent = Some(InitialCapabilityId)
    /\ [i \in 1..Len(audit_log) |->
          <<audit_log[i].operation, audit_log[i].capability_id>>]
         = << <<"Created", InitialCapabilityId>>, <<"Delegated", last.id>>,
              <<"Used", last.id>>, <<"Revoked", last.id>> >>

\* the positions of the log that record the creation of capability k
CreationEntries(log, k) ==
    {i \in 1..Len(log) : /\ log[i].capability_id = k
                         /\ log[i].operation \in {"Created", "Delegated"}}

(***************************************************************************)
(* C22: the audit log is append-only and each entry follows the operation  *)
(* it records.  No step removes, reorders or changes an entry; every       *)
(* capability in the registry has exactly one Created or Delegated entry,  *)
(* Delegated if and only if it has a parent; and that entry comes before   *)
(* every Used or Revoked entry with the same capability id.                *)
(***************************************************************************)
C22_AuditAppendOnly ==
    [][/\ Len(audit_log') >= Len(audit_log)
       /\ SubSeq(audit_log', 1, Len(audit_log)) = audit_log
       /\ \A k \in DOMAIN capabilities' :
            /\ Cardinality(CreationEntries(audit_log', k)) = 1
            /\ \A i \in CreationEntries(audit_log', k) :
                 /\ (audit_log'[i].operation = "Delegated")
                       <=> is_some(capabilities'[k].parent)
                 /\ \A j \in 1..Len(audit_log') :
                      (/\ audit_log'[j].capability_id = k
                       /\ audit_log'[j].operation \in {"Used", "Revoked"})
                          => i < j]_vars

\* two creations ran at once, the later id was logged first, and both
\* capabilities were used or revoked afterwards
C22_Witness ==
    \E i, j \in 1..Len(audit_log) :
        /\ i < j
        /\ audit_log[i].operation \in {"Created", "Delegated"}
        /\ audit_log[j].operation \in {"Created", "Delegated"}
        /\ audit_log[i].capability_id > audit_log[j].capability_id
        /\ \E n \in (j + 1)..Len(audit_log) :
             audit_log[n].operation \in {"Used", "Revoked"}

(***************************************************************************)
(* The calls by the locks they take.  Each call is the sequence of its     *)
(* points where it can return early or wait: "check" is a run of checks    *)
(* that may return an error (the parent or capability checks, with the     *)
(* fetch_add after them), "ring" a RingBuffer::write or read whose error   *)
(* `?` returns, "lock_..." the lock() of a spin::Mutex, which waits until  *)
(* the mutex is free, and "unlock_..." the drop of its guard.  Which way a *)
(* check goes is left open, so that every path of every call is taken.     *)
(***************************************************************************)
\* create_capability, lines 310-366; validate_capability, lines 393-426
checks_then_registry == <<"check", "lock_registry", "unlock_registry">>

\* revoke_capability, lines 444-475; get_stats, lines 551-563
registry_only == <<"lock_registry", "unlock_registry">>

\* the IPC_STATS update that ends send_message and receive_message, and the
\* copy of the statistics in ipc::get_stats
stats_update == <<"lock_stats", "unlock_stats">>

Program(call) ==
    CASE call.op \in {"create_capability", "validate_capability",
                      "create_channel"} -> checks_then_registry
      [] call.op \in {"revoke_capability", "get_stats"} -> registry_only
      [] call.op = "ipc_get_stats" -> stats_update
      [] call.op = "send_message" ->
             checks_then_registry \o <<"ring", "ring">> \o stats_update
      [] call.op = "receive_message" /\ call.data_type = 0 ->
             checks_then_registry \o <<"ring", "ring">> \o stats_update
      [] call.op = "receive_message" /\ call.data_type = 1 ->
             checks_then_registry \o <<"ring", "ring">>
                 \o checks_then_registry \o stats_update

CallInputs ==
    {[op |-> op, data_type |-> 0] :
        op \in {"create_capability", "validate_capability", "create_channel",
                "revoke_capability", "get_stats", "ipc_get_stats",
                "send_message", "receive_message"}}
    \cup {[op |-> "receive_message", data_type |-> 1]}

\* the point thread t is at
Instr(t) == Program(api_calls[t])[api_calls[t].pc]

\* thread t back from its call
Returned(t) ==
    [api_calls EXCEPT ![t] = [pc |-> 0, made |-> api_calls[t].made]]

\* thread t past the point it is at: the next one, or returned
Advanced(t) ==
    IF api_calls[t].pc = Len(Program(api_calls[t]))
    THEN Returned(t)
    ELSE [api_calls EXCEPT ![t].pc = @ + 1]

CallBegin(t, input) ==
    /\ api_calls[t].pc = 0
    /\ api_calls[t].made < MaxCallsPerThread
    /\ api_calls' = [api_calls EXCEPT ![t] = [op |-> input.op,
                                      data_type |-> input.data_type,
                                      pc |-> 1, made |-> api_calls[t].made + 1]]
    /\ UNCHANGED <<registry_lock, stats_lock, last>>
    /\ UNCHANGED <<capVars, ipcVars, ringVars, bootVars>>

\* the checks pass, the ring call returns Ok
CallPass(t) ==
    /\ api_calls[t].pc # 0
    /\ Instr(t) \in {"check", "ring"}
    /\ api_calls' = Advanced(t)
    /\ UNCHANGED <<registry_lock, stats_lock, last>>
    /\ UNCHANGED <<capVars, ipcVars, ringVars, bootVars>>

\* a check fails, the ring call returns an error: the call returns it
CallFail(t) ==
    /\ api_calls[t].pc # 0
    /\ Instr(t) \in {"check", "ring"}
    /\ api_calls' = Returned(t)
    /\ UNCHANGED <<registry_lock, stats_lock, last>>
    /\ UNCHANGED <<capVars, ipcVars, ringVars, bootVars>>

\* Mutex::lock(): taken only when free
CallLock(t) ==
    /\ api_calls[t].pc # 0
    /\ Instr(t) \in {"lock_registry", "lock_stats"}
    /\ IF Instr(t) = "lock_registry"
       THEN registry_lock = 0 /\ registry_lock' = t /\ UNCHANGED stats_lock
       ELSE stats_lock = 0 /\ stats_lock' = t /\ UNCHANGED registry_lock
    /\ api_calls' = Advanced(t)
    /\ UNCHANGED last
    /\ UNCHANGED <<capVars, ipcVars, ringVars, bootVars>>

\* the guard is dropped
CallUnlock(t) ==
    /\ api_calls[t].pc # 0
    /\ Instr(t) \in {"unlock_registry", "unlock_stats"}
    /\ IF Instr(t) = "unlock_registry"
       THEN registry_lock' = 0 /\ UNCHANGED stats_lock
       ELSE stats_lock' = 0 /\ UNCHANGED registry_lock
    /\ api_calls' = Advanced(t)
    /\ UNCHANGED last
    /\ UNCHANGED <<capVars, ipcVars, ringVars, bootVars>>

\* a step of thread t inside its call
ThreadStep(t) == CallPass(t) \/ CallFail(t) \/ CallLock(t) \/ CallUnlock(t)

(***************************************************************************)
(* The calls of MaxCallThreads threads, and next to them one transport     *)
(* written until no byte of it is free and read while nothing is unread.   *)
(* A write or read of the transport takes no lock and touches nothing the  *)
(* calls touch, so its order against their steps is immaterial: it is      *)
(* taken between calls.  Every thread that is inside a call is scheduled   *)
(* again (weak fairness of its steps).                                     *)
(***************************************************************************)
NoCallRunning == \A t \in CallThreads : api_calls[t].pc = 0

NextCalls ==
    \/ \E t \in CallThreads, input \in CallInputs : CallBegin(t, input)
    \/ \E t \in CallThreads : CallPass(t)
    \/ \E t \in CallThreads : CallFail(t)
    \/ \E t \in CallThreads : CallLock(t)
    \/ \E t \in CallThreads : CallUnlock(t)
    \/ \E n \in {1, RING_BUFFER_SIZE - 1} :
          /\ writes < MaxWrites
          /\ NoCallRunning
          /\ RingWrite(Payload(writes + 1, n))
    \/ /\ outstanding = << >>
       /\ NoCallRunning
       /\ RingRead(1)

SpecCalls ==
    /\ Init
    /\ [][NextCalls]_vars
    /\ \A t \in CallThreads : WF_vars(ThreadStep(t))

\* the write that has just returned on a transport with no free byte returned
\* BufferFull, the read on one with nothing unread BufferEmpty: each in the
\* one step of its call
RingNeverWaits ==
    [](/\ (last.op = "write" /\ last.free_before = 0 /\ Len(last.data) > 0)
              => last.result = "BufferFull"
       /\ (last.op = "read" /\ last.expected = None)
              => last.result = "BufferEmpty")

\* the read half of it
ReadNeverWaits ==
    []((last.op = "read" /\ last.expected = None)
          => last.result = "BufferEmpty")

\* no thread waits for or holds one lock while it holds the other, and a
\* thread outside a call holds none
LocksNotNested ==
    [](\A t \in CallThreads :
          /\ ~(registry_lock = t /\ stats_lock = t)
          /\ api_calls[t].pc = 0 => (registry_lock # t /\ stats_lock # t)
          /\ (api_calls[t].pc # 0 /\ Instr(t) \in {"lock_registry", "lock_stats"})
                => (registry_lock # t /\ stats_lock # t))

\* every call a thread has entered returns
CallsTerminate ==
    \A t \in CallThreads : (api_calls[t].pc # 0) ~> (api_calls[t].pc = 0)

(***************************************************************************)
(* C23: no operation blocks indefinitely.  A write on a full transport     *)
(* returns BufferFull and a read on an empty one BufferEmpty at once; the  *)
(* two locks are never nested; and under fair scheduling every create,     *)
(* validate, revoke, get_stats, send and receive call returns.             *)
(***************************************************************************)
C23_NoBlocking == RingNeverWaits /\ LocksNotNested /\ CallsTerminate

(***************************************************************************)
(* send_message with shared regions of several sizes, one of them larger   *)
(* than the ring, next to an inline message, on one channel.               *)
(***************************************************************************)
RegionSizes == {1, RING_BUFFER_SIZE, 16 * RING_BUFFER_SIZE}

SharedInputs ==
    {IpcMessage(2, 1, "Notification",
                SharedMemoryData(8192, size, root_cap), << >>) :
        size \in RegionSizes}

NextZeroCopy ==
    \/ /\ NEXT_CHANNEL_ID <= MaxChannels
       /\ NEXT_CAPABILITY_ID <= MaxCapabilityId
       /\ Cardinality(inflight) < MaxInflight
       /\ AuditRoom
       /\ CreateChannelBegin(1, 2)
    \/ \E call \in inflight : CreateChannelCommit(call)
    \/ \E channel_id \in DOMAIN channels,
          message \in SharedInputs
                      \cup {IpcMessage(1, 1, "Request",
                                       InlineData(InlineInput), << >>)},
          pad \in PaddingInputs :
          /\ AuditRoom
          /\ SendMessage(channel_id, message, pad)
    \/ \E channel_id \in DOMAIN channels :
          /\ AuditRoom
          /\ ReceiveMessage(channel_id)

SpecZeroCopy == Init /\ [][NextZeroCopy]_vars

\* the n bytes a ring holds from offset at on, wrapping at its end
RingBytes(ring, at, n) ==
    [i \in 1..n |->
        LET o == (at + i - 1) % ring.size IN
        IF o \in DOMAIN ring.buffer THEN ring.buffer[o] ELSE Uninit]

\* the two rings agree at every offset outside the n from at on
SameOutside(before, after, at, n) ==
    LET touched == {(at + i) % before.size : i \in 0..(n - 1)} IN
    /\ DOMAIN after.buffer \ touched = DOMAIN before.buffer \ touched
    /\ \A o \in DOMAIN before.buffer \ touched :
           after.buffer[o] = before.buffer[o]

(***************************************************************************)
(* C24: zero-copy send.  An accepted send_message of a SharedMemory        *)
(* message puts on the send ring the header and the (address, size) pair   *)
(* and nothing else: HEADER_SIZE + REF_SIZE bytes whatever the size of the *)
(* region, in two writes, the fields of the header first and the two       *)
(* little-endian words of the pair after it, every other byte of the ring  *)
(* left as it was.                                                         *)
(***************************************************************************)
C24_ZeroCopySend ==
    [][(/\ last'.op = "send_message"
        /\ last'.result = "Ok"
        /\ last'.message.data.tag = "SharedMemory") =>
           LET before == channels[last'.channel].send_ring
               after == channels'[last'.channel].send_ring
               message == last'.message
               written == HEADER_SIZE + REF_SIZE
           IN /\ after.write_pos = (before.write_pos + written) % before.size
              /\ after.count = before.count + 2
              /\ SubSeq(RingBytes(after, before.write_pos, written), 1, 14)
                     = SubSeq(header_bytes(message, 0), 1, 14)
              /\ SubSeq(RingBytes(after, before.write_pos, written),
                        HEADER_SIZE + 1, written)
                     = to_le_bytes(message.data.addr, 8)
                           \o to_le_bytes(message.data.size, 8)
              /\ SameOutside(before, after, before.write_pos, written)]_vars

\* a region sixteen times the ring has been sent, and before it a region of
\* one byte, each taking the same 32 bytes of the ring
C24_Witness ==
    /\ last.op = "send_message"
    /\ last.result = "Ok"
    /\ last.message.data.tag = "SharedMemory"
    /\ last.message.data.size = 16 * RING_BUFFER_SIZE
    /\ Len(sent_log[last.channel]) = 2
    /\ sent_log[last.channel][1].data.tag = "SharedMemory"
    /\ sent_log[last.channel][1].data.size = 1
    /\ channels[last.channel].send_ring.write_pos
           = 2 * (HEADER_SIZE + REF_SIZE)

(***************************************************************************)
(* create_channel(sender_pid, receiver_pid), lines 313-337, by its atomic  *)
(* steps: the fetch_add of NEXT_CHANNEL_ID (line 315), then inside         *)
(* create_capability the checks and the fetch_add of NEXT_CAPABILITY_ID,   *)
(* then CreateChannelCommit.  Other calls run between the steps.           *)
(***************************************************************************)
\* a mutant of CreateChannelFetchId: the counter is loaded, not advanced
CreateChannelFetchId_load(sender_pid, receiver_pid) ==
    /\ inflight' = inflight \cup
         {[caller |-> "create_channel_id",
           channel |-> Some([id |-> NEXT_CHANNEL_ID,
                             sender_pid |-> sender_pid,
                             receiver_pid |-> receiver_pid])]}
    /\ last' = [op |-> "create_channel", result |-> "Pending",
                id |-> NEXT_CHANNEL_ID]
    /\ UNCHANGED <<capabilities, audit_log, NEXT_CAPABILITY_ID, held>>
    /\ UNCHANGED ipcVars
    /\ UNCHANGED <<ringVars, bootVars, lockVars>>

CreateChannelFetchId(sender_pid, receiver_pid) ==
    /\ NEXT_CHANNEL_ID' = NEXT_CHANNEL_ID + 1
    /\ inflight' = inflight \cup
         {[caller |-> "create_channel_id",
           channel |-> Some([id |-> NEXT_CHANNEL_ID,
                             sender_pid |-> sender_pid,
                             receiver_pid |-> receiver_pid])]}
    /\ last' = [op |-> "create_channel", result |-> "Pending",
                id |-> NEXT_CHANNEL_ID]
    /\ UNCHANGED <<capabilities, audit_log, NEXT_CAPABILITY_ID, held>>
    /\ UNCHANGED <<channels, IPC_STATS, sent_log, recv_log>>
    /\ UNCHANGED <<ringVars, bootVars, lockVars>>

\* lines 322-327: create_capability up to its fetch_add, an error of it
\* mapped to CapabilityError
CreateChannelCapability(call) ==
    LET check == create_check(READ_WRITE, None)
        ch == unwrap(call.channel)
    IN
    /\ call.caller = "create_channel_id"
    /\ IF check = "Ok"
       THEN /\ NEXT_CAPABILITY_ID' = NEXT_CAPABILITY_ID + 1
            /\ inflight' = (inflight \ {call}) \cup
                 {[cap |-> new_capability(NEXT_CAPABILITY_ID, "IPC",
                                          ResourceIPC(ch.id), READ_WRITE,
                                          None),
                   parent |-> None,
                   parent_revoked_at_call |-> FALSE,
                   caller |-> "create_channel",
                   channel |-> call.channel]}
            /\ last' = [op |-> "create_channel", result |-> "Pending",
                        id |-> ch.id]
       ELSE /\ inflight' = inflight \ {call}
            /\ last' = [op |-> "create_channel", result |-> "CapabilityError",
                        id |-> ch.id]
            /\ UNCHANGED NEXT_CAPABILITY_ID
    /\ UNCHANGED <<capabilities, audit_log, held>>
    /\ UNCHANGED ipcVars
    /\ UNCHANGED <<ringVars, bootVars, lockVars>>

\* the calls of inflight that are inside create_capability
InCreateCapability == {call \in inflight : call.caller # "create_channel_id"}

(***************************************************************************)
(* Up to MaxChannelCreates create_channel calls, MaxConcurrentCreates of   *)
(* them and of create_capability calls running at once.                    *)
(***************************************************************************)
NextChannels ==
    \/ \E sender_pid \in PidInputs, receiver_pid \in PidInputs :
          /\ sender_pid # receiver_pid
          /\ NEXT_CHANNEL_ID <= MaxChannelCreates
          /\ Cardinality(inflight) < MaxConcurrentCreates
          /\ AuditRoom
          /\ CreateChannelFetchId(sender_pid, receiver_pid)
    \/ \E call \in inflight :
          /\ NEXT_CAPABILITY_ID <= MaxCapabilityId
          /\ CreateChannelCapability(call)
    \/ \E call \in InCreateCapability : CreateChannelCommit(call)
    \/ /\ NEXT_CAPABILITY_ID <= MaxCapabilityId
       /\ Cardinality(inflight) < MaxConcurrentCreates
       /\ AuditRoom
       /\ CreateCapabilityBegin("Memory", ResourceMemory(8192, 4096),
                                READ_WRITE, None)
    \/ \E call \in InCreateCapability : CreateCapabilityCommit(call)

SpecChannels == Init /\ [][NextChannels]_vars

(***************************************************************************)
(* C25: a create_channel call that returns Ok returns a channel whose id   *)
(* no channel returned before has, whatever the calls interleaved with it; *)
(* its two rings are new and empty; its capability is of kind IPC on the   *)
(* resource IPC { channel_id: id }, with no parent and depth 0, of no      *)
(* other channel, registered, and recorded by one Created entry.  A call   *)
(* that does not return Ok returns CapabilityError.                        *)
(***************************************************************************)
C25_CreateChannel ==
    [][last'.op = "create_channel" =>
         IF last'.result = "Ok"
         THEN LET id == last'.id
                  channel == channels'[id]
                  cap == channel.capability
              IN /\ id \notin DOMAIN channels
                 /\ channel.id = id
                 /\ \A r \in {channel.send_ring, channel.recv_ring} :
                       /\ r.size = RING_BUFFER_SIZE
                       /\ r.count = 0
                       /\ r.write_pos = 0 /\ r.read_pos = 0
                       /\ r.buffer = << >>
                 /\ cap.cap_type = "IPC"
                 /\ cap.resource_id = [tag |-> "IPC", channel_id |-> id]
                 /\ cap.parent = None
                 /\ cap.depth = 0
                 /\ \A other \in DOMAIN channels :
                       channels[other].capability.id # cap.id
                 /\ cap.id \notin DOMAIN capabilities
                 /\ capabilities'[cap.id] = cap
                 /\ audit_log' = Append(audit_log, AuditEntry("Created", cap.id))
         ELSE last'.result \in {"Pending", "CapabilityError"}]_vars

\* two create_channel calls that ran at once have both returned, the one
\* that took the later channel id holding the earlier capability id
C25_Witness ==
    /\ last.op = "create_channel"
    /\ last.result = "Ok"
    /\ {1, 2} \subseteq DOMAIN channels
    /\ channels[1].capability.id > channels[2].capability.id

\* the bytes of the four fields of MessageHeader, in their order
header_fields(message) == SubSeq(header_bytes(message, 0), 1, 14)

\* an accepted send has put the four fields of the header at the offset where
\* the ring stood, the data-type tag 0 for an inline payload and 1 for a pair
HeaderFieldsWritten ==
    [][(last'.op = "send_message" /\ last'.result = "Ok") =>
         LET before == channels[last'.channel].send_ring
             after == channels'[last'.channel].send_ring
         IN /\ RingBytes(after, before.write_pos, 14)
                   = header_fields(last'.message)
            /\ RingBytes(after, before.write_pos + 13, 1)
                   = << IF last'.message.data.tag = "Inline" THEN 0 ELSE 1 >>
            /\ RingBytes(after, before.write_pos + HEADER_SIZE,
                         Len(payload_bytes(last'.message.data)))
                   = payload_bytes(last'.message.data)]_vars

(***************************************************************************)
(* C26: wire format.  An accepted send_message puts on the ring a header   *)
(* of 14 bytes, the 8-byte id, the 4-byte sender pid, the message-type tag *)
(* and the data-type tag (0 before an inline payload, 1 before an          *)
(* (address, size) pair), and the payload right after it: the ring has     *)
(* advanced by 14 bytes and the length of the payload.                     *)
(***************************************************************************)
C26_WireFormat ==
    [][(last'.op = "send_message" /\ last'.result = "Ok") =>
         LET before == channels[last'.channel].send_ring
             after == channels'[last'.channel].send_ring
             payload == payload_bytes(last'.message.data)
         IN /\ RingBytes(after, before.write_pos, 14)
                   = header_fields(last'.message)
            /\ RingBytes(after, before.write_pos + 13, 1)
                   = << IF last'.message.data.tag = "Inline" THEN 0 ELSE 1 >>
            /\ after.write_pos
                   = (before.write_pos + 14 + Len(payload)) % before.size
            /\ RingBytes(after, before.write_pos + 14, Len(payload))
                   = payload]_vars

(***************************************************************************)
(* The end of a channel.  ipc.rs has no close operation and no Drop for    *)
(* IpcChannel or its fields: a channel ends when its owner drops the       *)
(* IpcChannel value (lines 48-66), which runs no code.  The value is gone, *)
(* so no send_message or receive_message can name it; the registry and the *)
(* audit log are not touched.                                              *)
(***************************************************************************)
DropChannel(channel_id) ==
    /\ channels' = [id \in DOMAIN channels \ {channel_id} |-> channels[id]]
    /\ last' = [op |-> "drop_channel", result |-> "Ok",
                channel |-> channel_id,
                capability |-> channels[channel_id].capability]
    /\ UNCHANGED <<NEXT_CHANNEL_ID, IPC_STATS, sent_log, recv_log>>
    /\ UNCHANGED capVars
    /\ UNCHANGED <<ringVars, bootVars, lockVars>>

NextTeardown ==
    \/ /\ NEXT_CHANNEL_ID <= MaxChannels
       /\ NEXT_CAPABILITY_ID <= MaxCapabilityId
       /\ Cardinality(inflight) < MaxInflight
       /\ AuditRoom
       /\ CreateChannelBegin(1, 2)
    \/ \E call \in inflight : CreateChannelCommit(call)
    \/ \E channel_id \in DOMAIN channels, message \in SharedInputs,
          pad \in PaddingInputs :
          /\ AuditRoom
          /\ SendMessage(channel_id, message, pad)
    \/ \E channel_id \in DOMAIN channels :
          /\ AuditRoom
          /\ ReceiveMessage(channel_id)
    \/ \E channel_id \in DOMAIN channels : DropChannel(channel_id)

SpecTeardown == Init /\ [][NextTeardown]_vars

(***************************************************************************)
(* C27: channel teardown revokes the gate.  Once a channel has been        *)
(* closed, it is gone and its gating capability is flagged revoked in the  *)
(* registry, so that no send or receive through that capability passes     *)
(* the validation.                                                         *)
(***************************************************************************)
C27_TeardownRevokesGate ==
    last.op = "drop_channel" =>
        /\ last.channel \notin DOMAIN channels
        /\ capabilities[last.capability.id].revoked
        /\ validate_check(capabilities[last.capability.id], "Write") # "Ok"
        /\ validate_check(capabilities[last.capability.id], "Read") # "Ok"

(***************************************************************************)
(* create_capability with resources inside and outside the parent's: a     *)
(* region, a part of it, the region after it and an IPC channel.           *)
(***************************************************************************)
ScopeInputs ==
    {[cap_type |-> "Memory", resource_id |-> ResourceMemory(4096, 4096)],
     [cap_type |-> "Memory", resource_id |-> ResourceMemory(4096, 1024)],
     [cap_type |-> "Memory", resource_id |-> ResourceMemory(8192, 4096)],
     [cap_type |-> "IPC", resource_id |-> ResourceIPC(1)]}

NextScope ==
    \/ \E input \in ScopeInputs, permissions \in {FULL, READ_ONLY},
          parent \in {None, Some(root_cap)} \cup {Some(c) : c \in held} :
          /\ NEXT_CAPABILITY_ID <= MaxCapabilityId
          /\ Cardinality(inflight) < MaxInflight
          /\ AuditRoom
          /\ CreateCapabilityBegin(input.cap_type, input.resource_id,
                                   permissions, parent)
    \/ \E call \in inflight : CreateCapabilityCommit(call)
    \/ \E capability_id \in DOMAIN capabilities \ {InitialCapabilityId} :
          /\ AuditRoom
          /\ RevokeCapability(capability_id)

SpecScope == Init /\ [][NextScope]_vars

\* resource lies within the resource outer: a memory range contained in the
\* range of outer, any other resource the one outer names
WithinResource(resource, outer) ==
    IF resource.tag = "Memory" /\ outer.tag = "Memory"
    THEN /\ resource.start >= outer.start
         /\ resource.start + resource.size <= outer.start + outer.size
    ELSE resource = outer

(***************************************************************************)
(* C28: resource scoping of delegation.  Every capability that             *)
(* create_capability has made from a parent names a resource within the    *)
(* resource of that parent.                                                *)
(***************************************************************************)
C28_DelegationWithinScope ==
    (/\ last.op = "create_capability"
     /\ last.result = "Ok"
     /\ is_some(last.parent)) =>
        WithinResource(last.cap.resource_id, unwrap(last.parent).resource_id)

(***************************************************************************)
(* create_capability on every parent value its parameter admits: the       *)
(* capabilities handed out so far and the root, with the revoked flag      *)
(* either way, the depth 0 or 255, and the permissions FULL, READ_ONLY or  *)
(* READ_DELEGATE.  One call runs at a time.                                *)
(***************************************************************************)
ParentInputs ==
    {[c EXCEPT !.revoked = r, !.depth = d, !.permissions = q] :
        c \in held \cup {root_cap},
        r \in BOOLEAN,
        d \in {0, 255},
        q \in {FULL, READ_ONLY, READ_DELEGATE}}

NextPrecedence ==
    \/ \E permissions \in {FULL, READ_ONLY},
          parent \in {None} \cup {Some(c) : c \in ParentInputs} :
          /\ NEXT_CAPABILITY_ID <= MaxCapabilityId
          /\ inflight = {}
          /\ AuditRoom
          /\ CreateCapabilityBegin("Memory", ResourceMemory(4096, 4096),
                                   permissions, parent)
    \/ \E call \in inflight : CreateCapabilityCommit(call)

SpecPrecedence == Init /\ [][NextPrecedence]_vars

(***************************************************************************)
(* C29: error precedence in delegation.  create_capability with a parent   *)
(* returns ParentRevoked when the parent is flagged revoked; else          *)
(* NoDelegatePermission when it lacks the delegate right; else             *)
(* PermissionEscalation when the permissions asked for are not among the   *)
(* parent's; else DelegationDepthExceeded when the parent's depth is 255   *)
(* or more.  A call that returns one of the four has taken no id, left the *)
(* registry as it was and appended no audit entry.                         *)
(***************************************************************************)
C29_ErrorPrecedence ==
    [][(last'.op = "create_capability" /\ is_some(last'.parent)) =>
         LET parent == unwrap(last'.parent)
             no_delegate == ~parent.permissions.delegate
             escalation == ~RightsWithin(last'.permissions, parent.permissions)
             too_deep == parent.depth >= 255
         IN /\ parent.revoked => last'.result = "ParentRevoked"
            /\ (~parent.revoked /\ no_delegate) =>
                   last'.result = "NoDelegatePermission"
            /\ (~parent.revoked /\ ~no_delegate /\ escalation) =>
                   last'.result = "PermissionEscalation"
            /\ (~parent.revoked /\ ~no_delegate /\ ~escalation /\ too_deep) =>
                   last'.result = "DelegationDepthExceeded"
            /\ last'.result \in CreateErrors =>
                   /\ NEXT_CAPABILITY_ID' = NEXT_CAPABILITY_ID
                   /\ inflight' = inflight
                   /\ capabilities' = capabilities
                   /\ audit_log' = audit_log]_vars

\* all four checks failed at once on a parent a caller held, after other
\* capabilities had been created, and ParentRevoked was returned
C29_Witness ==
    /\ last.op = "create_capability"
    /\ last.result = "ParentRevoked"
    /\ unwrap(last.parent).revoked
    /\ ~unwrap(last.parent).permissions.delegate
    /\ ~RightsWithin(last.permissions, unwrap(last.parent).permissions)
    /\ unwrap(last.parent).depth = 255
    /\ unwrap(last.parent).id # InitialCapabilityId
    /\ Len(audit_log) > 1

(***************************************************************************)
(* C30: revoke_capability(id) for an id that is not in the registry        *)
(* returns NotFound and leaves the registry, every revoked flag in it, and *)
(* the audit log as they were.                                             *)
(***************************************************************************)
C30_RevokeNotFound ==
    [][(last'.op = "revoke_capability" /\ last'.id \notin DOMAIN capabilities)
          => /\ last'.result = "NotFound"
             /\ DOMAIN capabilities' = DOMAIN capabilities
             /\ \A k \in DOMAIN capabilities :
                   capabilities'[k].revoked = capabilities[k].revoked
             /\ capabilities' = capabilities
             /\ audit_log' = audit_log]_vars

\* an id not registered was refused while the registry held a revoked and an
\* unrevoked capability
C30_Witness ==
    /\ last.op = "revoke_capability"
    /\ last.result = "NotFound"
    /\ last.id \notin DOMAIN capabilities
    /\ \E k \in DOMAIN capabilities : capabilities[k].revoked
    /\ \E k \in DOMAIN capabilities : ~capabilities[k].revoked
    /\ \E i \in DOMAIN audit_log : audit_log[i].operation = "Revoked"

\* a revoke_capability call that returned Ok appended the one Revoked entry
\* of its id and nothing else
OneRevokedEntry ==
    [][(last'.op = "revoke_capability" /\ last'.result = "Ok") =>
          audit_log' = Append(audit_log, AuditEntry("Revoked", last'.id))]_vars

(***************************************************************************)
(* C31: each revoke_capability(id) that returns Ok appends exactly one     *)
(* Revoked entry, of the id it was called with; and when the capability    *)
(* was revoked already, the call returns Ok and leaves the revoked flag of *)
(* every capability in the registry as it was.                             *)
(***************************************************************************)
C31_RevokeIdempotent ==
    [][(last'.op = "revoke_capability" /\ last'.id \in DOMAIN capabilities) =>
          /\ last'.result = "Ok"
          /\ audit_log' = Append(audit_log, AuditEntry("Revoked", last'.id))
          /\ capabilities[last'.id].revoked =>
                \A k \in DOMAIN capabilities :
                    capabilities'[k].revoked = capabilities[k].revoked]_vars

(***************************************************************************)
(* C32: validate_capability logs all access attempts.  Every call, with    *)
(* whatever result, appends one entry of the capability's id to the audit  *)
(* log.                                                                    *)
(***************************************************************************)
C32_ValidateLogsEveryAttempt ==
    [][last'.op = "validate_capability" =>
          /\ Len(audit_log') = Len(audit_log) + 1
          /\ SubSeq(audit_log', 1, Len(audit_log)) = audit_log
          /\ audit_log'[Len(audit_log')].capability_id = last'.cap.id]_vars

(***************************************************************************)
(* One sender on one channel until the send ring refuses: inline and       *)
(* shared-memory messages in turn.  Nothing reads the send ring            *)
(* (receive_message reads recv_ring), so its count is twice the number of  *)
(* messages accepted.                                                      *)
(***************************************************************************)
SendInput ==
    IF IPC_STATS.messages_sent % 2 = 0
    THEN IpcMessage(1, 1, "Request", InlineData(InlineInput), << >>)
    ELSE IpcMessage(2, 1, "Notification",
                    SharedMemoryData(8192, RING_BUFFER_SIZE, root_cap), << >>)

NextSend ==
    \/ /\ channels = << >>
       /\ inflight = {}
       /\ CreateChannelBegin(1, 2)
    \/ \E call \in inflight : CreateChannelCommit(call)
    \/ \E channel_id \in DOMAIN channels :
          /\ Len(audit_log) < MaxSends + 2
          /\ SendMessage(channel_id, SendInput, 0)

SpecSend == Init /\ [][NextSend]_vars

(***************************************************************************)
(* C33: send_message is all-or-nothing on the ring.  A call that returns   *)
(* Ok has put the whole header and after it the whole payload on the send  *)
(* ring; a call that returns an error has left the send ring as it was.    *)
(***************************************************************************)
C33_SendAllOrNothing ==
    [][last'.op = "send_message" =>
         LET before == channels[last'.channel].send_ring
             after == channels'[last'.channel].send_ring
             payload == payload_bytes(last'.message.data)
         IN IF last'.result = "Ok"
            THEN /\ after.write_pos
                        = (before.write_pos + HEADER_SIZE + Len(payload))
                              % before.size
                 /\ after.count = before.count + 2
                 /\ RingBytes(after, before.write_pos, 14)
                        = header_fields(last'.message)
                 /\ RingBytes(after, before.write_pos + HEADER_SIZE,
                              Len(payload)) = payload
            ELSE after = before]_vars

\* the send ring has refused a message after accepting others past its end
C33_Witness ==
    /\ last.op = "send_message"
    /\ last.result = "BufferFull"
    /\ channels[last.channel].send_ring.count = RING_BUFFER_SIZE
    /\ Len(sent_log[last.channel]) = RING_BUFFER_SIZE \div 2

(***************************************************************************)
(* A sender and a receiver at work on one channel at once.  send_message   *)
(* is taken in its two parts, up to the header write (lines 357-383) and   *)
(* from the payload write on (lines 385-407), with the receiver's calls    *)
(* before, between and after them.  receive_message is taken in one piece: *)
(* its reads are of recv_ring, which no part of send_message touches.      *)
(***************************************************************************)
SendMessageHeader(t, channel_id, message, pad) ==
    LET channel == channels[channel_id]
        check == validate_check(channel.capability, "Write")
        w1 == RingBuffer_write(channel.send_ring, header_bytes(message, pad))
    IN
    /\ api_calls[t].pc = 0
    /\ audit_log' = IF check = "Ok"
                    THEN Append(audit_log,
                                AuditEntry("Used", channel.capability.id))
                    ELSE audit_log
    /\ IF check = "Ok" /\ w1.result = "Ok"
       THEN /\ channels' = [channels EXCEPT ![channel_id].send_ring = w1.ring]
            /\ api_calls' = [api_calls EXCEPT
                               ![t] = [pc |-> 1, made |-> api_calls[t].made,
                                       channel |-> channel_id,
                                       message |-> message]]
            /\ UNCHANGED last
       ELSE /\ last' = [op |-> "send_message",
                        result |-> IF check # "Ok" THEN "PermissionDenied"
                                   ELSE w1.result,
                        channel |-> channel_id, message |-> message,
                        capability |-> channel.capability]
            /\ UNCHANGED <<channels, api_calls>>
    /\ UNCHANGED <<capabilities, NEXT_CAPABILITY_ID, held, inflight>>
    /\ UNCHANGED <<NEXT_CHANNEL_ID, IPC_STATS, sent_log, recv_log>>
    /\ UNCHANGED <<ringVars, bootVars, registry_lock, stats_lock>>

SendMessagePayload(t) ==
    /\ api_calls[t].pc = 1
    /\ LET channel_id == api_calls[t].channel
           message == api_calls[t].message
           w2 == RingBuffer_write(channels[channel_id].send_ring,
                                  payload_bytes(message.data))
       IN /\ channels' = [channels EXCEPT
                            ![channel_id].send_ring =
                                IF w2.result = "Ok" THEN w2.ring ELSE @]
          /\ IPC_STATS' =
               IF w2.result = "Ok"
               THEN [IPC_STATS EXCEPT
                       !.messages_sent = @ + 1,
                       !.zero_copy_transfers =
                           IF message.data.tag = "SharedMemory"
                           THEN @ + 1 ELSE @]
               ELSE IPC_STATS
          /\ sent_log' = IF w2.result = "Ok"
                         THEN [sent_log EXCEPT
                                 ![channel_id] = Append(@, message)]
                         ELSE sent_log
          /\ last' = [op |-> "send_message", result |-> w2.result,
                      channel |-> channel_id, message |-> message,
                      capability |-> channels[channel_id].capability]
    /\ api_calls' = Returned(t)
    /\ UNCHANGED <<capVars, NEXT_CHANNEL_ID, recv_log>>
    /\ UNCHANGED <<ringVars, bootVars, registry_lock, stats_lock>>

\* the thread that sends
Sender == 1

NextDuplex ==
    \/ /\ channels = << >>
       /\ inflight = {}
       /\ CreateChannelBegin(1, 2)
    \/ \E call \in inflight : CreateChannelCommit(call)
    \/ \E channel_id \in DOMAIN channels, message \in MessageInputs,
          pad \in PaddingInputs :
          /\ AuditRoom
          /\ SendMessageHeader(Sender, channel_id, message, pad)
    \/ SendMessagePayload(Sender)
    \/ \E channel_id \in DOMAIN channels :
          /\ AuditRoom
          /\ ReceiveMessage(channel_id)
    \/ \E channel_id \in DOMAIN channels :
          /\ AuditRoom
          /\ RevokeCapability(channels[channel_id].capability.id)

SpecDuplex == Init /\ [][NextDuplex]_vars

C35_CountAgreesWithCursors ==
    [][/\ (transport'.count = 0) <=> (TotalLen(outstanding') = 0)
       /\ last'.op = "read" =>
            /\ (last'.result = "BufferEmpty") <=> (TotalLen(outstanding) = 0)
            /\ last'.result = "Ok" =>
                 /\ last'.n >= 1
                 /\ last'.n <= TotalLen(outstanding)]_vars

(***************************************************************************)
(* The transport written and read with lengths below, at and beyond the    *)
(* size of its region: write and read take a slice of any length.          *)
(***************************************************************************)
BoundsWriteLens == {1, RING_BUFFER_SIZE - 1, 2 * RING_BUFFER_SIZE + 1}

BoundsReadLens == {1, 2 * RING_BUFFER_SIZE}

NextBounds ==
    \/ \E n \in BoundsWriteLens :
          /\ writes < MaxWrites
          /\ RingWrite(Payload(writes + 1, n))
    \/ \E buffer_len \in BoundsReadLens : RingRead(buffer_len)

SpecBounds == Init /\ [][NextBounds]_vars

(***************************************************************************)
(* C36: buffer operations never overflow the region.  Whatever the length  *)
(* of the data written or of the destination read into, every offset a     *)
(* write stores to lies in [0, size), no read returns more bytes than the  *)
(* region holds, and write_pos and read_pos stay in [0, size).             *)
(***************************************************************************)
C36_NoBufferOverflow ==
    /\ DOMAIN transport.buffer \subseteq 0..(transport.size - 1)
    /\ transport.write_pos \in 0..(transport.size - 1)
    /\ transport.read_pos \in 0..(transport.size - 1)
    /\ last.op = "read" => last.n <= transport.size

(***************************************************************************)
(* C37: attenuation is transitive.  In every registry state the rights of  *)
(* every capability are among the rights of each capability on its parent  *)
(* chain, up to the chain's root.                                          *)
(***************************************************************************)
C37_TransitiveAttenuation ==
    \A k \in DOMAIN capabilities, a \in DOMAIN capabilities :
        HasAncestor(capabilities, k, a) =>
            RightsWithin(capabilities[k].permissions,
                         capabilities[a].permissions)

\* a capability with fewer rights than its parent's parent, the parent in
\* between having fewer rights than that one too
C37_Witness ==
    \E k \in DOMAIN capabilities, p \in DOMAIN capabilities,
       a \in DOMAIN capabilities :
        /\ capabilities[k].parent = Some(p)
        /\ capabilities[p].parent = Some(a)
        /\ capabilities[k].permissions # capabilities[p].permissions
        /\ capabilities[p].permissions # capabilities[a].permissions

(***************************************************************************)
(* C38: the delegation structure is a well-formed forest.  The parent id   *)
(* of every capability that has one names a registry entry with a smaller  *)
(* id, so that no parent chain comes back to where it started; the child's *)
(* depth is its parent's depth + 1; a capability without parent has depth  *)
(* 0.                                                                      *)
(***************************************************************************)
C38_WellFormedForest ==
    \A k \in DOMAIN capabilities :
        LET c == capabilities[k] IN
        /\ c.id = k
        /\ IF is_some(c.parent)
           THEN /\ unwrap(c.parent) \in DOMAIN capabilities
                /\ unwrap(c.parent) < k
                /\ c.depth = capabilities[unwrap(c.parent)].depth + 1
           ELSE c.depth = 0

\* a tree beside the root's, two delegations deep
C38_Witness ==
    \E k \in DOMAIN capabilities, r \in DOMAIN capabilities :
        /\ capabilities[k].depth = 2
        /\ HasAncestor(capabilities, k, r)
        /\ r # InitialCapabilityId
        /\ capabilities[r].parent = None

(***************************************************************************)
(* C39: only holders of the delegate right have children.  Every           *)
(* capability that is the parent of another has the delegate right, so a   *)
(* READ_ONLY or READ_WRITE capability is the parent of none.               *)
(***************************************************************************)
C39_OnlyDelegatorsHaveChildren ==
    \A k \in DOMAIN capabilities :
        is_some(capabilities[k].parent) =>
            LET p == capabilities[unwrap(capabilities[k].parent)] IN
            /\ p.permissions.delegate
            /\ p.permissions \notin {READ_ONLY, READ_WRITE}

\* a delegation from a READ_ONLY capability, itself the child of a holder of
\* the delegate right, was refused
C39_Witness ==
    /\ last.op = "create_capability"
    /\ last.result = "NoDelegatePermission"
    /\ unwrap(last.parent).permissions = READ_ONLY
    /\ is_some(unwrap(last.parent).parent)
    /\ unwrap(last.parent).id \in DOMAIN capabilities

====
